---- MODULE Spec2Model ----
(***************************************************************************)
(* The transport and scheduling engine of the DAW and the project glue     *)
(* around it (project load, the mute filter, the playlist elements).       *)
(*                                                                         *)
(* The Transport class itself (modules/audio/transport) is imported by the *)
(* sources but its file is not among them: its registry, filter chain and  *)
(* play-head are modelled from the specification (sections 4.2, 4.3, 5).   *)
(* Everything else is translated from the sources.                         *)
(***************************************************************************)
EXTENDS Integers, Sequences, FiniteSets, TLC

\* ------------------------------------------------------------------ bounds
\* Event ids handed out by the transports in one run (ids 1..MaxId).
MaxId == 3
\* The loop window is [LoopStart, LoopEnd), in ticks.
LoopEnd == 3
\* Predicates added with addFilter, over all transports.
MaxFilters == 2
\* Tracks (rows) of the playlist.
NumTracks == 2
\* Transports the audio clock drives at the same time.
MaxPlaying == 1

LoopStart == 0

\* Ticks in one beat (the resolution of the clock converter).
TicksPerBeat == 2
\* Element.eventId of an element that was never scheduled (undefined).
NoEvent == 0
\* Elements placed in the master playlist, and notes put in the pattern.
MaxElements == 2
MaxNotes == 2
\* Scores of a pattern and playlist elements of a project file that is loaded.
MaxScores == 2
MaxLoadElements == 2

\* Start times of elements, in beats, and their durations.
Beats == {0, 1}
\* The rows (the keys) of the notes of the pattern.
NoteRows == {0}
Durations == {1}

\* Musical times (ticks) and rows an event can be scheduled with.
Times == {0, 1}
Rows == 0 .. (NumTracks - 1)

\* The playlist's transport, a pattern's transport, and a transport nested
\* inside the pattern's.
Transports == {"master", "p1", "p2"}

\* Nesting depth: a transport only embeds transports below it (no cycles).
Depth(t) == CASE t = "master" -> 0 [] t = "p1" -> 1 [] OTHER -> 2

\* The predicates callers hand to addFilter: the mute filter of the project
\* (rejects the rows of muted tracks) and a fixed predicate on the row.
FilterNames == {"mute", "rowZero"}

VARIABLES
    registry,   \* transport -> sequence of scheduled events, in insertion order
    filters,    \* transport -> sequence of predicates, in addFilter order
    state,      \* transport -> "stopped" | "playing"
    position,   \* transport -> play-head, in ticks
    loop,       \* transport -> looping flag
    nextId,     \* the next event id (ids are never reused)
    trackMute,  \* row -> the mute flag of that track
    fired,      \* the callbacks fired by the latest step, in firing order
    cleared,    \* the events removed by clear so far
    last,       \* the latest operation and what it was called with
    elements,   \* Playlist.elements: the placed elements of the master playlist
    notes,      \* the notes of the pattern (of its score)
    projectJSON,\* what framework.manager.getProjectJSON() returns
    loadResult, \* what loadProject() returned, or the exception it threw
    instruments,     \* project.instruments: the instruments, by id
    patterns,        \* project.patterns: the patterns with their scores
    samples,         \* project.samples: the samples, by id
    automationClips, \* project.automationClips: the clips with their points
    masterElements,  \* project.master.elements: the placed elements
    undoStack,       \* the actions that can be undone, the latest one last
    redoStack,       \* the actions that were undone, the latest one last
    notifications,   \* the warnings shown with notify.warning
    call,            \* the latest call on the project and its outcome
    channel,         \* a channel of the mixer: its fields, effects and output
    nextUuid,        \* the next id uuid.v4() returns
    suppressed,      \* history: the events the filters rejected when they were due
    extensionDefs,   \* the extensions: what each asks for and declares
    extensions,      \* manager: the ids whose API is stored (extensions[id])
    resolved,        \* manager: resolved[id], "unset" when the key is absent
    extensionsStack, \* manager: the activated extensions, in activation order
    activations,     \* history: how often each extension's activate was called
    notificationQueue, \* manager: the decode errors reported
    projectManager,  \* manager: whether the project manager was made
    extState,        \* the workspace and global state of each extension
    files,           \* what dispose wrote to the global and workspace files
    recording,       \* MIDI: whether notes are recorded
    recordedNotes,   \* MIDI: key -> the timestamp of its recorded note-on
    notesStartTimes, \* MIDI: key -> the start time of its recorded note
    midiTransport,   \* MIDI: the transport the recorder holds
    midiNotes,       \* MIDI: the notes pushed to the selected score
    heldKeys,        \* the keys of the input device that are down
    midiClock,       \* the timestamp of the next MIDI event
    selectedScore,   \* whether a score is selected
    selectedPattern, \* whether a pattern is selected
    synth            \* an instrument: mute, destination, connected, outputs

transportVars == <<registry, filters, state, position, loop, nextId,
                   trackMute, fired, cleared, last>>

playlistVars == <<elements, notes>>

loadVars == <<projectJSON, loadResult>>

projectVars == <<instruments, patterns, samples, automationClips, masterElements,
                 undoStack, redoStack, notifications, call>>

\* The project collections, without the record of the latest call.
projectData == <<instruments, patterns, samples, automationClips, masterElements,
                 undoStack, redoStack, notifications>>

channelVars == <<channel, nextUuid>>

managerVars == <<extensionDefs, extensions, resolved, extensionsStack, activations,
                 notificationQueue, projectManager, extState, files>>

midiVars == <<recording, recordedNotes, notesStartTimes, midiTransport, midiNotes,
              heldKeys, midiClock, selectedScore, selectedPattern>>

componentVars == <<channelVars, suppressed, managerVars, midiVars, synth>>

vars == <<transportVars, playlistVars, loadVars, projectVars, componentVars>>

\* No call on the project yet.
NoCall == [op |-> "none"]

\* The project collections of a run that is not about them: all empty.
NoProjectData ==
    /\ instruments = <<>>
    /\ patterns = <<>>
    /\ samples = <<>>
    /\ automationClips = <<>>
    /\ masterElements = <<>>
    /\ undoStack = <<>>
    /\ redoStack = <<>>
    /\ notifications = <<>>
    /\ call = NoCall

\* ------------------------------------------- Channel: constructor, serialize
\* Ids handed out by uuid.v4() in one run (ids 1..MaxUuid).
MaxUuid == 4
\* Effects of a channel payload read from a project file.
MaxPayloadEffects == 2

\* The slots of a channel an effect can sit in.
Slots == 0 .. 2
EffectNames == {"wah", "reverb"}
\* Pan positions (the signal runs from -1 to 1) and volumes, in hundredths
\* (the signal runs from 0 to 1).
Pans == {0 - 1, 0, 1}
Volumes == {0, 70, 100}
ChannelNumbers == {0, 1}
\* The index deleteEffect is called with.
DeleteIndices == 0 .. 3

\* A field the payload does not have.
Undefined == 0 - 1000
\* i.pan ?? 0 and i.volume ?? 0.8 (in hundredths).
DefaultPan == 0
DefaultVolume == 80
\* The volume Channel.create gives a new channel: 0.7.
CreatedVolume == 70

\* The output of a muted channel is connected to nothing.
NoNode == "none"

\* a ?? b
Coalesce(a, b) == IF a = Undefined THEN b ELSE a

\* EffectDefaults[type]
EffectDefaultsOf(type) == [defaultsOf |-> type]

\* new Effect(iEffect): the fields of the payload and the audio node made
\* for the effect's type.
NewEffect(i) ==
    [slot |-> i.slot, type |-> i.type, options |-> i.options, id |-> i.id,
     effect |-> [node |-> i.type, disposed |-> FALSE]]

\* effect.serialize(): the fields of the payload, without the audio node.
EffectSerialize(e) ==
    [slot |-> e.slot, type |-> e.type, options |-> e.options, id |-> e.id]

\* Effect.create(slot, type), for the id uuid.v4() returned.
EffectCreate(slot, type, id) ==
    NewEffect([slot |-> slot, type |-> type, options |-> EffectDefaultsOf(type),
               id |-> id])

\* The channel made from a payload with the volume it is created with,
\* whatever the payload says.
NewChannelDefaultVolume(i) ==
    [number |-> i.number, name |-> i.name, id |-> i.id,
     pan |-> Coalesce(i.pan, DefaultPan),
     volume |-> DefaultVolume,
     mute |-> i.mute,
     output |-> IF i.mute THEN NoNode ELSE "master",
     effects |-> [k \in 1 .. Len(i.effects) |-> NewEffect(i.effects[k])]]

\* new Channel(i)
NewChannel(i) ==
    [number |-> i.number, name |-> i.name, id |-> i.id,
     pan |-> Coalesce(i.pan, DefaultPan),
     volume |-> Coalesce(i.volume, DefaultVolume),
     mute |-> i.mute,
     output |-> IF i.mute THEN NoNode ELSE "master",
     effects |-> [k \in 1 .. Len(i.effects) |-> NewEffect(i.effects[k])]]

\* Channel.create(num), for the id uuid.v4() returned.
ChannelCreate(num, id) ==
    NewChannel([number |-> num, name |-> "Channel " \o ToString(num), id |-> id,
                effects |-> <<>>, pan |-> 0, volume |-> CreatedVolume,
                mute |-> FALSE])

\* channel.serialize()
ChannelSerialize(c) ==
    [number |-> c.number, name |-> c.name, id |-> c.id,
     effects |-> [k \in 1 .. Len(c.effects) |-> EffectSerialize(c.effects[k])],
     pan |-> c.pan, volume |-> c.volume, mute |-> c.mute]

\* ------------------------------------------- extension manager: module state
ExtIds == {"a", "b", "c"}
\* State values of the extensions that are changed from their defaults.
MaxChanged == 2
\* What an extension keeps in its workspace and global state.
StateValues == {0, 1}

\* No data: what getDataFromExtensions returns when it meets an extension
\* without a definition (return; gives undefined).
NoData == [kind |-> "undefined", entries |-> {}]

EmptyData == [kind |-> "data", entries |-> {}]


\* The manager before any extension is activated.
NoManager ==
    /\ extensions = {}
    /\ resolved = [id \in ExtIds |-> "unset"]
    /\ extensionsStack = <<>>
    /\ activations = [id \in ExtIds |-> 0]
    /\ notificationQueue = <<>>
    /\ projectManager = FALSE
    /\ extState = [id \in ExtIds |-> [workspace |-> 0, global |-> 0]]
    /\ files = [global |-> EmptyData, workspace |-> EmptyData]

\* Extensions that ask for no other and declare both definitions.
PlainExtensions ==
    [id \in ExtIds |->
        [deps |-> <<>>, workspace |-> TRUE, global |-> TRUE, deactivate |-> "ok",
         encode |-> "ok", stored |-> "valid"]]

\* ------------------------------------------- MIDI recorder: its state
\* The keys of the input device (e.note.name + e.note.octave).
Keys == {"C4", "D4"}
\* keyLookup[key].id: the row of the key in the piano roll.
KeyRow(k) == IF k = "C4" THEN 0 ELSE 1

\* recordedNotes[key] and notesStartTimes[key] when the key is not in them.
Missing == 0 - 1

\* The recorder of the MIDI extension after activate.
NoRecorder ==
    /\ recording = FALSE
    /\ recordedNotes = [k \in Keys |-> Missing]
    /\ notesStartTimes = [k \in Keys |-> Missing]
    /\ midiTransport = "own"
    /\ midiNotes = <<>>
    /\ heldKeys = {}
    /\ midiClock = 0

\* ------------------------------------------- Instrument: its connection
\* The audio nodes an instrument's panner can be connected to.
Nodes == {"master", "fx1", "fx2"}
\* The channels an instrument can be routed to (null: none).
NoChannel == 0 - 1
InstrumentChannels == {NoChannel, 0, 1}

\* checkConnection(): nothing without a destination; a muted instrument
\* that counts as connected is disconnected from the destination, one that
\* is not muted and does not count as connected is connected to it.
CheckConnection(i) ==
    IF i.destination = NoNode THEN i
    ELSE IF i.mute /\ i.connected
         THEN [i EXCEPT !.outputs = @ \ {i.destination}, !.connected = FALSE]
         ELSE IF ~i.mute /\ ~i.connected
              THEN [i EXCEPT !.outputs = @ \cup {i.destination}, !.connected = TRUE]
              ELSE i

\* new Instrument(): the panner goes to the master, which is the
\* destination, and the instrument counts as connected.
NewInstrument ==
    [mute |-> FALSE, destination |-> "master", connected |-> TRUE,
     outputs |-> {"master"}, channel |-> NoChannel]

\* Instrument.create(o), for the mute flag of o.
InstrumentCreate(mute) == CheckConnection([NewInstrument EXCEPT !.mute = mute])

\* An instrument of a new project.
NoInstrument == synth = InstrumentCreate(FALSE)

\* The first channel of a new project.
NoChannels ==
    /\ channel = ChannelCreate(0, 1)
    /\ nextUuid = 2

\* The components of a run that is not about them.
NoComponents ==
    /\ NoChannels
    /\ suppressed = {}
    /\ NoManager
    /\ extensionDefs = PlainExtensions
    /\ NoRecorder
    /\ selectedScore = FALSE
    /\ selectedPattern = FALSE
    /\ NoInstrument

\* ------------------------------------------------------------ small helpers
Range(s) == {s[i] : i \in 1 .. Len(s)}

Ids(s) == {s[i].id : i \in 1 .. Len(s)}

RECURSIVE Concat(_)
Concat(ss) == IF ss = <<>> THEN <<>> ELSE Head(ss) \o Concat(Tail(ss))

\* ------------------------------------------------------------- filter chain
\* mutedTracks with the indices taken after the filter: the positions in the
\* list of muted tracks, not the indices of the tracks.
mutedTracksRenumbered == 0 .. (Cardinality({r \in Rows : trackMute[r]}) - 1)

\* part_001:335-345: the indices of the tracks whose mute flag is set.
mutedTracks == {r \in Rows : trackMute[r]}

\* One predicate applied to one event, with the answer it gives now.
FilterHolds(f, e) ==
    CASE f = "mute" -> ~(e.row \in mutedTracks)
      [] f = "rowZero" -> e.row = 0

\* A chain in which only the predicate added last is asked.
AcceptsLastOnly(t, e) ==
    filters[t] = <<>> \/ FilterHolds(filters[t][Len(filters[t])], e)

\* An event passes the chain of transport t iff every predicate accepts it.
Accepts(t, e) == \A i \in 1 .. Len(filters[t]) : FilterHolds(filters[t][i], e)

\* A registry entry. okWhenScheduled is history only: the answer the chain gave
\* for the event when it was scheduled (nothing reads it when events fire).
NewEvent(t, id, time, row, kind, child) ==
    LET e == [id |-> id, time |-> time, row |-> row, kind |-> kind,
              child |-> child, okWhenScheduled |-> TRUE]
    IN [e EXCEPT !.okWhenScheduled = Accepts(t, e)]

\* ---------------------------------------------------------------- firing
\* The callbacks transport t fires when its play-head is at tick p: the
\* registry is walked in insertion order, an entry rejected by t's filters is
\* skipped, a callback fires when its time is p, an embed forwards the
\* time-shifted query to the child. path holds the ids of the embeds passed.
\* Due with the filters asked when the event was scheduled.
RECURSIVE DueScheduleTimeFilters(_, _, _)
DueScheduleTimeFilters(t, p, path) ==
    Concat([i \in 1 .. Len(registry[t]) |->
        LET e == registry[t][i] IN
        IF ~e.okWhenScheduled THEN <<>>
        ELSE IF e.kind = "callback"
             THEN IF e.time = p
                  THEN <<[id |-> e.id, owner |-> t, path |-> path]>>
                  ELSE <<>>
             ELSE IF p >= e.time
                  THEN DueScheduleTimeFilters(e.child, p - e.time, Append(path, e.id))
                  ELSE <<>>])

\* Due with the child asked at the parent's own tick (the offset is dropped).
RECURSIVE DueUnshifted(_, _, _)
DueUnshifted(t, p, path) ==
    Concat([i \in 1 .. Len(registry[t]) |->
        LET e == registry[t][i] IN
        IF ~Accepts(t, e) THEN <<>>
        ELSE IF e.kind = "callback"
             THEN IF e.time = p
                  THEN <<[id |-> e.id, owner |-> t, path |-> path]>>
                  ELSE <<>>
             ELSE IF p >= e.time
                  THEN DueUnshifted(e.child, p, Append(path, e.id))
                  ELSE <<>>])

RECURSIVE Due(_, _, _)
Due(t, p, path) ==
    Concat([i \in 1 .. Len(registry[t]) |->
        LET e == registry[t][i] IN
        IF ~Accepts(t, e) THEN <<>>
        ELSE IF e.kind = "callback"
             THEN IF e.time = p
                  THEN <<[id |-> e.id, owner |-> t, path |-> path]>>
                  ELSE <<>>
             ELSE IF p >= e.time
                  THEN Due(e.child, p - e.time, Append(path, e.id))
                  ELSE <<>>])

NoOp == [op |-> "init", t |-> "master", id |-> 0, at |-> 0, present |-> FALSE]

\* ------------------------------------------------------------ operations
\* schedule that puts the new event in front of the registry.
SchedulePrepend(t, time, row) ==
    /\ nextId <= MaxId
    /\ registry' = [registry EXCEPT ![t] =
           <<NewEvent(t, nextId, time, row, "callback", "none")>> \o @]
    /\ nextId' = nextId + 1
    /\ fired' = <<>>
    /\ last' = [NoOp EXCEPT !.op = "schedule", !.t = t, !.id = nextId]
    /\ UNCHANGED <<filters, state, position, loop, trackMute, cleared>>

\* schedule(callback, time) -> eventId
Schedule(t, time, row) ==
    /\ nextId <= MaxId
    /\ registry' = [registry EXCEPT ![t] = Append(@,
           NewEvent(t, nextId, time, row, "callback", "none"))]
    /\ nextId' = nextId + 1
    /\ fired' = <<>>
    /\ last' = [NoOp EXCEPT !.op = "schedule", !.t = t, !.id = nextId]
    /\ UNCHANGED <<filters, state, position, loop, trackMute, cleared>>

\* embed(otherTransport, atTime) -> eventId
Embed(t, child, time, row) ==
    /\ nextId <= MaxId
    /\ Depth(t) < Depth(child)
    /\ registry' = [registry EXCEPT ![t] = Append(@,
           NewEvent(t, nextId, time, row, "embed", child))]
    /\ nextId' = nextId + 1
    /\ fired' = <<>>
    /\ last' = [NoOp EXCEPT !.op = "embed", !.t = t, !.id = nextId]
    /\ UNCHANGED <<filters, state, position, loop, trackMute, cleared>>

\* clear that takes the id for a position in the registry.
ClearRegByIndex(reg, id) ==
    [i \in 1 .. (Len(reg) - (IF id <= Len(reg) THEN 1 ELSE 0)) |->
        IF i < id THEN reg[i] ELSE reg[i + 1]]

\* clear written as splice(findIndex(id), 1): an id that is not found gives
\* index -1 and the splice removes the last entry.
ClearRegSplice(reg, id) ==
    IF id \in Ids(reg) THEN SelectSeq(reg, LAMBDA e : e.id # id)
    ELSE IF reg = <<>> THEN reg ELSE SubSeq(reg, 1, Len(reg) - 1)

\* The registry of a transport without the event of the given id.
ClearReg(reg, id) == SelectSeq(reg, LAMBDA e : e.id # id)

\* clear(eventId)
Clear(t, id) ==
    /\ registry' = [registry EXCEPT ![t] = ClearReg(@, id)]
    /\ cleared' = cleared \cup
           {[id |-> e.id, owner |-> t, time |-> e.time] :
               e \in {x \in Range(registry[t]) : x.id = id}}
    /\ fired' = <<>>
    /\ last' = [NoOp EXCEPT !.op = "clear", !.t = t, !.id = id,
                            !.present = id \in Ids(registry[t])]
    /\ UNCHANGED <<filters, state, position, loop, nextId, trackMute>>

\* addFilter(predicate)
AddFilter(t, f) ==
    /\ Len(filters["master"]) + Len(filters["p1"]) + Len(filters["p2"]) < MaxFilters
    /\ filters' = [filters EXCEPT ![t] = Append(@, f)]
    /\ fired' = <<>>
    /\ last' = [NoOp EXCEPT !.op = "addFilter", !.t = t]
    /\ UNCHANGED <<registry, state, position, loop, nextId, trackMute, cleared>>

\* Unmuting that goes through what the track missed: the events of the
\* track whose time the play-head has passed fire at once.
ToggleMuteCatchUp(r) ==
    /\ trackMute' = [trackMute EXCEPT ![r] = ~@]
    /\ fired' = IF trackMute[r] /\ state["master"] = "playing"
                THEN [k \in 1 .. Len(SelectSeq(registry["master"],
                                 LAMBDA e : e.row = r /\ e.time < position["master"])) |->
                        [id |-> SelectSeq(registry["master"],
                                   LAMBDA e : e.row = r /\ e.time < position["master"])[k].id,
                         owner |-> "master", path |-> <<>>]]
                ELSE <<>>
    /\ last' = [NoOp EXCEPT !.op = "mute", !.id = r]
    /\ UNCHANGED <<registry, filters, state, position, loop, nextId, cleared>>

\* A track's mute flag is switched (the mute filter reads it when it is asked).
ToggleMute(r) ==
    /\ trackMute' = [trackMute EXCEPT ![r] = ~@]
    /\ fired' = <<>>
    /\ last' = [NoOp EXCEPT !.op = "mute", !.id = r]
    /\ UNCHANGED <<registry, filters, state, position, loop, nextId, cleared>>

\* start()
Start(t) ==
    /\ state[t] = "stopped"
    /\ Cardinality({u \in Transports : state[u] = "playing"}) < MaxPlaying
    /\ state' = [state EXCEPT ![t] = "playing"]
    /\ fired' = <<>>
    /\ last' = [NoOp EXCEPT !.op = "start", !.t = t]
    /\ UNCHANGED <<registry, filters, position, loop, nextId, trackMute, cleared>>

\* stop(): the play-head goes back to the start of the loop window.
Stop(t) ==
    /\ state[t] = "playing"
    /\ state' = [state EXCEPT ![t] = "stopped"]
    /\ position' = [position EXCEPT ![t] = LoopStart]
    /\ fired' = <<>>
    /\ last' = [NoOp EXCEPT !.op = "stop", !.t = t]
    /\ UNCHANGED <<registry, filters, loop, nextId, trackMute, cleared>>

\* The looping flag is switched.
SetLoop(t) ==
    /\ loop' = [loop EXCEPT ![t] = ~@]
    /\ fired' = <<>>
    /\ last' = [NoOp EXCEPT !.op = "loop", !.t = t]
    /\ UNCHANGED <<registry, filters, state, position, nextId, trackMute, cleared>>

\* A tick that does not ask whether the transport is playing.
TickUnguarded(t) ==
    /\ fired' = Due(t, position[t], <<>>)
    /\ IF position[t] + 1 < LoopEnd
       THEN /\ position' = [position EXCEPT ![t] = @ + 1]
            /\ state' = state
       ELSE /\ position' = [position EXCEPT ![t] = LoopStart]
            /\ state' = state
    /\ last' = [NoOp EXCEPT !.op = "tick", !.t = t, !.at = position[t]]
    /\ UNCHANGED <<registry, filters, loop, nextId, trackMute, cleared>>

\* One tick of the audio clock on a playing transport: the callbacks due at
\* the play-head fire, then the play-head advances; at loopEnd it wraps to
\* loopStart when looping and the transport stops otherwise.
Tick(t) ==
    /\ state[t] = "playing"
    /\ fired' = Due(t, position[t], <<>>)
    /\ IF position[t] + 1 < LoopEnd
       THEN /\ position' = [position EXCEPT ![t] = @ + 1]
            /\ state' = state
       ELSE IF loop[t]
            THEN /\ position' = [position EXCEPT ![t] = LoopStart]
                 /\ state' = state
            ELSE /\ position' = [position EXCEPT ![t] = LoopStart]
                 /\ state' = [state EXCEPT ![t] = "stopped"]
    /\ last' = [NoOp EXCEPT !.op = "tick", !.t = t, !.at = position[t]]
    /\ UNCHANGED <<registry, filters, loop, nextId, trackMute, cleared>>

\* ------------------------------------------------------ timeline entities
\* toTickTime: a time in beats as the transport's ticks.
ToTickTime(beats) == beats * TicksPerBeat

\* Element.tickTime
TickTimeOf(el) == ToTickTime(el.time)

\* new Element(o): row, duration and time are set, eventId is undefined.
NewElement(type, row, time, duration) ==
    [type |-> type, row |-> row, time |-> time, duration |-> duration,
     eventId |-> NoEvent]

\* An element is placed in the master playlist (elements.push).
PlaceElement(type, row, time, duration) ==
    /\ Len(elements) < MaxElements
    /\ elements' = Append(elements, NewElement(type, row, time, duration))
    /\ fired' = <<>>
    /\ last' = [NoOp EXCEPT !.op = "place"]
    /\ UNCHANGED <<registry, filters, state, position, loop, nextId, trackMute,
                   cleared, notes, loadVars, componentVars, projectVars>>

\* A note is put in the pattern's score (notes.push).
AddNote(row, time, duration) ==
    /\ Len(notes) < MaxNotes
    /\ notes' = Append(notes, NewElement("note", row, time, duration))
    /\ fired' = <<>>
    /\ last' = [NoOp EXCEPT !.op = "note"]
    /\ UNCHANGED <<registry, filters, state, position, loop, nextId, trackMute,
                   cleared, elements, loadVars, componentVars, projectVars>>

\* PlacedPattern.schedule with the element's time in beats handed to embed.
PlacedPatternScheduleInBeats(i) ==
    /\ i \in 1 .. Len(elements)
    /\ elements[i].type = "pattern"
    /\ Embed("master", "p1", elements[i].time, elements[i].row)
    /\ elements' = [elements EXCEPT ![i].eventId = nextId]
    /\ UNCHANGED <<notes, loadVars, componentVars, projectVars>>

\* PlacedPattern.schedule(transport): the pattern's transport is embedded in
\* the playlist's at the element's tick time; the id returned is kept.
PlacedPatternSchedule(i) ==
    /\ i \in 1 .. Len(elements)
    /\ elements[i].type = "pattern"
    /\ Embed("master", "p1", TickTimeOf(elements[i]), elements[i].row)
    /\ elements' = [elements EXCEPT ![i].eventId = nextId]
    /\ UNCHANGED <<notes, loadVars, componentVars, projectVars>>

\* PlacedSample.schedule(transport)
PlacedSampleSchedule(i) ==
    /\ i \in 1 .. Len(elements)
    /\ elements[i].type = "sample"
    /\ Schedule("master", TickTimeOf(elements[i]), elements[i].row)
    /\ elements' = [elements EXCEPT ![i].eventId = nextId]
    /\ UNCHANGED <<notes, loadVars, componentVars, projectVars>>

\* Note.schedule(transport), on the pattern's transport.
NoteSchedule(i) ==
    /\ i \in 1 .. Len(notes)
    /\ Schedule("p1", TickTimeOf(notes[i]), notes[i].row)
    /\ notes' = [notes EXCEPT ![i].eventId = nextId]
    /\ UNCHANGED <<elements, loadVars, componentVars, projectVars>>

\* Element.remove(transport) of a playlist element: the event is cleared when
\* the element has an eventId; the eventId stays as it is.
ElementRemove(i) ==
    /\ i \in 1 .. Len(elements)
    /\ IF elements[i].eventId # NoEvent
       THEN Clear("master", elements[i].eventId)
       ELSE /\ fired' = <<>>
            /\ last' = [NoOp EXCEPT !.op = "remove", !.t = "master"]
            /\ UNCHANGED <<registry, filters, state, position, loop, nextId,
                           trackMute, cleared>>
    /\ UNCHANGED <<elements, notes, loadVars, componentVars, projectVars>>

\* Element.remove(transport) of a note of the pattern.
NoteRemove(i) ==
    /\ i \in 1 .. Len(notes)
    /\ IF notes[i].eventId # NoEvent
       THEN Clear("p1", notes[i].eventId)
       ELSE /\ fired' = <<>>
            /\ last' = [NoOp EXCEPT !.op = "remove", !.t = "p1"]
            /\ UNCHANGED <<registry, filters, state, position, loop, nextId,
                           trackMute, cleared>>
    /\ UNCHANGED <<elements, notes, loadVars, componentVars, projectVars>>

\* ------------------------------------------------------------ project load
\* No project file is opened (getProjectJSON() returns null).
NoProject == [kind |-> "none"]

\* The result before loadProject has run.
NotLoaded == [type |-> "none"]

SeqsUpTo(S, n) == UNION {[1 .. k -> S] : k \in 0 .. n}

\* The decoded project files the load is tried on (IProject): one instrument
\* and one channel at most, one pattern with up to MaxScores scores, one
\* sample, one automation clip, and up to MaxLoadElements playlist elements;
\* every reference may name an entity that is in its list or one that is not.
IProjects ==
    [instruments : SeqsUpTo({"i1"}, 1),
     channels : SeqsUpTo({"c1"}, 1),
     patterns : SeqsUpTo([id : {"p1"},
                          scores : SeqsUpTo([instrumentId : {"i1", "i2"}], MaxScores)], 1),
     samples : SeqsUpTo([id : {"s1"}, onDisk : BOOLEAN], 1),
     automationClips : SeqsUpTo([id : {"a1"}, context : {"channel", "instrument"},
                                 contextId : {"c1", "i1"},
                                 attr : {"volume", "bogus"}], 1),
     elements : SeqsUpTo([type : {"automation", "pattern", "sample"},
                          id : {"a1", "p1", "s1"}], MaxLoadElements)]

\* makeLookup, as the set of its keys.
MakeLookup(ids) == Range(ids)

\* The attributes of a channel or an instrument that are signals.
SignalAttrs == {"volume", "pan"}

\* emptyProject()
EmptyProject ==
    [bpm |-> 120, stepsPerBeat |-> 4, beatsPerMeasure |-> 4, name |-> "",
     elements |-> <<>>,
     patterns |-> <<[name |-> "Pattern 0", scores |-> <<>>]>>,
     instruments |-> <<"Synth 0">>,
     channels |-> 10, tracks |-> 21,
     samples |-> <<>>, automationClips |-> <<>>]

ErrorResult(message) ==
    [type |-> "error", message |-> message, project |-> EmptyProject]

\* The scores of all patterns, pattern by pattern, each with its place.
AllScores(iProject) ==
    Concat([i \in 1 .. Len(iProject.patterns) |->
        [k \in 1 .. Len(iProject.patterns[i].scores) |->
            [id |-> <<iProject.patterns[i].id, k>>,
             instrumentId |-> iProject.patterns[i].scores[k].instrumentId]]])

\* What the map over iProject.automationClips does with one clip: the lookup
\* of a context id that is not there is undefined and reading attr of it
\* throws; an attribute that is no signal reaches the throw of line 209.
ClipOutcome(clip, channelLookup, instrumentLookup) ==
    LET lookup == IF clip.context = "channel" THEN channelLookup ELSE instrumentLookup
    IN IF clip.contextId \notin lookup THEN "TypeError"
       ELSE IF clip.attr \notin SignalAttrs THEN "Unable to parse automation clip"
       ELSE "ok"

\* The collection a playlist element of the given type refers to.
LookupFor(type, clipLookup, patternLookup, sampleLookup) ==
    CASE type = "automation" -> clipLookup
      [] type = "pattern" -> patternLookup
      [] type = "sample" -> sampleLookup

\* load(iProject)
Load(iProject) ==
    LET instrumentLookup == MakeLookup(iProject.instruments)
        channelLookup == MakeLookup(iProject.channels)
        badScores == SelectSeq(AllScores(iProject),
                        LAMBDA sc : sc.instrumentId \notin instrumentLookup)
        clips == iProject.automationClips
        badClips == SelectSeq(clips, LAMBDA c :
                        ClipOutcome(c, channelLookup, instrumentLookup) # "ok")
        clipLookup == {clips[i].id : i \in 1 .. Len(clips)}
        patternLookup == {iProject.patterns[i].id : i \in 1 .. Len(iProject.patterns)}
        sampleLookup == {iProject.samples[i].id : i \in 1 .. Len(iProject.samples)}
        badElements == SelectSeq(iProject.elements, LAMBDA el :
                        el.id \notin LookupFor(el.type, clipLookup, patternLookup,
                                               sampleLookup))
    IN IF badScores # <<>>
       THEN ErrorResult(<<"Instrument from score", badScores[1].id>>)
       ELSE IF badClips # <<>>
       THEN [type |-> "thrown",
             message |-> ClipOutcome(badClips[1], channelLookup, instrumentLookup)]
       ELSE IF badElements # <<>>
       THEN ErrorResult(<<"not found in the Playlist", badElements[1].type,
                          badElements[1].id>>)
       ELSE [type |-> "success",
             project |->
                [bpm |-> 120, stepsPerBeat |-> 4, beatsPerMeasure |-> 4, name |-> "",
                 elements |-> iProject.elements,
                 patterns |-> [i \in 1 .. Len(iProject.patterns) |->
                                 [name |-> iProject.patterns[i].id,
                                  scores |-> iProject.patterns[i].scores]],
                 instruments |-> iProject.instruments,
                 channels |-> Len(iProject.channels), tracks |-> 21,
                 samples |-> iProject.samples,
                 automationClips |-> clips]]

\* loadProject()
LoadProject ==
    /\ loadResult.type = "none"
    /\ loadResult' =
          IF projectJSON.kind = "none"
          THEN [type |-> "success", project |-> EmptyProject]
          ELSE IF projectJSON.kind = "undecodable"
          THEN ErrorResult(<<"decode">>)
          ELSE Load(projectJSON.decoded)
    /\ UNCHANGED <<projectJSON, transportVars, playlistVars, projectVars,
                   componentVars>>

\* The extension is activated on any project file.
InitLoad ==
    /\ NoComponents
    /\ registry = [t \in Transports |-> <<>>]
    /\ filters = [t \in Transports |-> <<>>]
    /\ state = [t \in Transports |-> "stopped"]
    /\ position = [t \in Transports |-> LoopStart]
    /\ loop = [t \in Transports |-> FALSE]
    /\ nextId = 1
    /\ trackMute = [r \in Rows |-> FALSE]
    /\ fired = <<>>
    /\ cleared = {}
    /\ last = NoOp
    /\ elements = <<>>
    /\ notes = <<>>
    /\ projectJSON \in {NoProject, [kind |-> "undecodable"]}
                        \cup {[kind |-> "project", decoded |-> ip] : ip \in IProjects}
    /\ loadResult = NotLoaded
    /\ NoProjectData

NextLoad == LoadProject

SpecLoad == InitLoad /\ [][NextLoad]_vars

\* ------------------------------------------------------- the transport alone
Init ==
    /\ NoComponents
    /\ registry = [t \in Transports |-> <<>>]
    /\ filters = [t \in Transports |-> <<>>]
    /\ state = [t \in Transports |-> "stopped"]
    /\ position = [t \in Transports |-> LoopStart]
    /\ loop = [t \in Transports |-> FALSE]
    /\ nextId = 1
    /\ trackMute = [r \in Rows |-> FALSE]
    /\ fired = <<>>
    /\ cleared = {}
    /\ last = NoOp
    /\ elements = <<>>
    /\ notes = <<>>
    /\ projectJSON = NoProject
    /\ loadResult = NotLoaded
    /\ NoProjectData

\* The transport's operations called in any order on the playlist's transport
\* and one pattern's transport, the pattern embedded in the playlist or played
\* alone (no filters are installed: every row is 0).
Next ==
    \/ /\ \E t \in {"master", "p1"}, time \in Times : Schedule(t, time, 0)
       /\ UNCHANGED <<playlistVars, loadVars, componentVars, projectVars>>
    \/ /\ \E time \in Times : Embed("master", "p1", time, 0)
       /\ UNCHANGED <<playlistVars, loadVars, componentVars, projectVars>>
    \/ /\ \E t \in {"master", "p1"}, id \in 1 .. MaxId : id < nextId /\ Clear(t, id)
       /\ UNCHANGED <<playlistVars, loadVars, componentVars, projectVars>>
    \/ /\ \E t \in {"master", "p1"} : Start(t)
       /\ UNCHANGED <<playlistVars, loadVars, componentVars, projectVars>>
    \/ /\ \E t \in {"master", "p1"} : Stop(t)
       /\ UNCHANGED <<playlistVars, loadVars, componentVars, projectVars>>
    \/ /\ \E t \in {"master", "p1"} : SetLoop(t)
       /\ UNCHANGED <<playlistVars, loadVars, componentVars, projectVars>>
    \/ /\ \E t \in {"master", "p1"} : Tick(t)
       /\ UNCHANGED <<playlistVars, loadVars, componentVars, projectVars>>

Spec == Init /\ [][Next]_vars

\* One transport with its filter chain: events on every row, predicates added
\* while events are scheduled and played, tracks muted and unmuted.
NextFilter ==
    \/ /\ \E time \in Times, row \in Rows : Schedule("master", time, row)
       /\ UNCHANGED <<playlistVars, loadVars, componentVars, projectVars>>
    \/ /\ \E id \in 1 .. MaxId : id < nextId /\ Clear("master", id)
       /\ UNCHANGED <<playlistVars, loadVars, componentVars, projectVars>>
    \/ /\ \E f \in FilterNames : AddFilter("master", f)
       /\ UNCHANGED <<playlistVars, loadVars, componentVars, projectVars>>
    \/ /\ \E r \in Rows : ToggleMute(r)
       /\ UNCHANGED <<playlistVars, loadVars, componentVars, projectVars>>
    \/ /\ Start("master")
       /\ UNCHANGED <<playlistVars, loadVars, componentVars, projectVars>>
    \/ /\ Stop("master")
       /\ UNCHANGED <<playlistVars, loadVars, componentVars, projectVars>>
    \/ /\ Tick("master")
       /\ UNCHANGED <<playlistVars, loadVars, componentVars, projectVars>>

SpecFilter == Init /\ [][NextFilter]_vars

\* Nested embedding: the nested transport embedded in the pattern's and the
\* pattern's in the playlist's, each with its own fixed predicate, played
\* from the playlist's transport.
NextNested ==
    \/ /\ \E t \in Transports, time \in Times, row \in Rows : Schedule(t, time, row)
       /\ UNCHANGED <<playlistVars, loadVars, componentVars, projectVars>>
    \/ /\ \E time \in Times, row \in Rows : Embed("master", "p1", time, row)
       /\ UNCHANGED <<playlistVars, loadVars, componentVars, projectVars>>
    \/ /\ \E time \in Times, row \in Rows : Embed("p1", "p2", time, row)
       /\ UNCHANGED <<playlistVars, loadVars, componentVars, projectVars>>
    \/ /\ \E t \in Transports : AddFilter(t, "rowZero")
       /\ UNCHANGED <<playlistVars, loadVars, componentVars, projectVars>>
    \/ /\ Start("master")
       /\ UNCHANGED <<playlistVars, loadVars, componentVars, projectVars>>
    \/ /\ Tick("master")
       /\ UNCHANGED <<playlistVars, loadVars, componentVars, projectVars>>

SpecNested == Init /\ [][NextNested]_vars

\* A pattern and the playlist it is placed in: notes are put in the pattern
\* and scheduled on its transport, the pattern is placed in the playlist and
\* embedded in the playlist's transport; the playlist or the pattern alone is
\* played.
NextPattern ==
    \/ \E time \in Beats, d \in Durations : PlaceElement("pattern", 0, time, d)
    \/ \E row \in NoteRows, time \in Beats, d \in Durations : AddNote(row, time, d)
    \/ \E i \in 1 .. MaxElements : PlacedPatternSchedule(i)
    \/ \E i \in 1 .. MaxNotes : NoteSchedule(i)
    \/ \E i \in 1 .. MaxNotes : NoteRemove(i)
    \/ /\ \E t \in {"master", "p1"} : Start(t)
       /\ UNCHANGED <<playlistVars, loadVars, componentVars, projectVars>>
    \/ /\ \E t \in {"master", "p1"} : Stop(t)
       /\ UNCHANGED <<playlistVars, loadVars, componentVars, projectVars>>
    \/ /\ \E t \in {"master", "p1"} : Tick(t)
       /\ UNCHANGED <<playlistVars, loadVars, componentVars, projectVars>>

SpecPattern == Init /\ [][NextPattern]_vars

\* The project after defineAPI: the mute filter is on the master transport.
\* The pattern holds one scheduled note; pattern and sample elements are
\* placed on the tracks and scheduled, tracks are muted and unmuted, and the
\* playlist is played.
InitMute ==
    /\ NoComponents
    /\ \E row \in NoteRows, time \in Beats, d \in Durations :
          /\ notes = <<[NewElement("note", row, time, d) EXCEPT !.eventId = 1]>>
          /\ registry = [t \in Transports |->
                IF t = "p1"
                THEN <<[id |-> 1, time |-> ToTickTime(time), row |-> row,
                        kind |-> "callback", child |-> "none",
                        okWhenScheduled |-> TRUE]>>
                ELSE <<>>]
    /\ filters = [t \in Transports |-> IF t = "master" THEN <<"mute">> ELSE <<>>]
    /\ state = [t \in Transports |-> "stopped"]
    /\ position = [t \in Transports |-> LoopStart]
    /\ loop = [t \in Transports |-> FALSE]
    /\ nextId = 2
    /\ trackMute = [r \in Rows |-> FALSE]
    /\ fired = <<>>
    /\ cleared = {}
    /\ last = NoOp
    /\ elements = <<>>
    /\ projectJSON = NoProject
    /\ loadResult = NotLoaded
    /\ NoProjectData

NextMute ==
    \/ \E type \in {"pattern", "sample"}, row \in Rows, time \in Beats, d \in Durations :
           PlaceElement(type, row, time, d)
    \/ \E i \in 1 .. MaxElements : PlacedPatternSchedule(i)
    \/ \E i \in 1 .. MaxElements : PlacedSampleSchedule(i)
    \/ /\ \E r \in Rows : ToggleMute(r)
       /\ UNCHANGED <<playlistVars, loadVars, componentVars, projectVars>>
    \/ /\ Start("master")
       /\ UNCHANGED <<playlistVars, loadVars, componentVars, projectVars>>
    \/ /\ Stop("master")
       /\ UNCHANGED <<playlistVars, loadVars, componentVars, projectVars>>
    \/ /\ Tick("master")
       /\ UNCHANGED <<playlistVars, loadVars, componentVars, projectVars>>

SpecMute == InitMute /\ [][NextMute]_vars

\* ------------------------------------------------------ project collections
\* Undoable actions in one run, and placed elements of the project at first.
MaxHistory == 2
MaxMaster == 3

InstrumentIds == {"i1", "i2"}
PatternIds == {"p1", "p2"}
SampleIds == {"s1"}
ClipIds == {"a1"}

\* Score.instrument of a score that was not initialised (undefined).
Unset == "unset"

\* reverse(arr)
Reverse(s) == [i \in 1 .. Len(s) |-> s[Len(s) + 1 - i]]

\* arr.splice(ind, 1), with indices counted from 1: an index past the end
\* removes nothing.
RemoveAt(seq, ind) ==
    IF ind \in 1 .. Len(seq)
    THEN SubSeq(seq, 1, ind - 1) \o SubSeq(seq, ind + 1, Len(seq))
    ELSE seq

\* arr.splice(ind, 0, item)
InsertAt(seq, ind, item) ==
    SubSeq(seq, 1, ind - 1) \o <<item>> \o SubSeq(seq, ind, Len(seq))

\* for (const ind of inds) { arr.splice(ind, 1); }: the array that is left and
\* the removals in the order they were made, each with the item it took out.
RECURSIVE SpliceEach(_, _)
SpliceEach(seq, inds) ==
    IF inds = <<>>
    THEN [rest |-> seq, log |-> <<>>]
    ELSE LET ind == Head(inds)
             after == SpliceEach(RemoveAt(seq, ind), Tail(inds))
         IN [rest |-> after.rest,
             log |-> (IF ind \in 1 .. Len(seq)
                      THEN <<[index |-> ind, item |-> seq[ind]]>>
                      ELSE <<>>) \o after.log]

\* arr.forEach((x, ind) => { if (test(x)) { toRemove.push(ind); } }), with
\* hits[ind] the answer of the test for the item at ind.
Indices(hits) ==
    SelectSeq([i \in 1 .. Len(hits) |-> i], LAMBDA i : hits[i])

\* The removals of a log as changes of one collection of the project (the
\* scores of the pattern with the given id, when the collection is "scores").
ChangesOf(coll, pattern, log) ==
    [k \in 1 .. Len(log) |->
        [coll |-> coll, pattern |-> pattern,
         index |-> log[k].index, item |-> log[k].item]]

\* The body of patterns.forEach in instruments.onDidRemove with the indices
\* taken in ascending order.
RemoveScoresOfAscending(scores, instrumentSet) ==
    SpliceEach(scores, Indices([i \in 1 .. Len(scores) |->
                                    scores[i].instrument \in instrumentSet]))

\* The body of patterns.forEach in instruments.onDidRemove, for one pattern.
RemoveScoresOf(scores, instrumentSet) ==
    LET toRemove == Indices([i \in 1 .. Len(scores) |->
                                scores[i].instrument \in instrumentSet])
    IN SpliceEach(scores, Reverse(toRemove))

\* instruments.onDidRemove(({ items: deletedInstruments }) => ...)
InstrumentsOnDidRemove(pats, deletedInstruments) ==
    [patterns |-> [i \in 1 .. Len(pats) |->
        [pats[i] EXCEPT !.scores = RemoveScoresOf(@, deletedInstruments).rest]],
     log |-> Concat([i \in 1 .. Len(pats) |->
        ChangesOf("scores", pats[i].id,
                  RemoveScoresOf(pats[i].scores, deletedInstruments).log)])]

\* removeElements with the indices taken in ascending order.
RemoveElementsAscending(els, type, removed) ==
    SpliceEach(els, Indices([i \in 1 .. Len(els) |->
                                els[i].type = type /\ els[i].element \in removed]))

\* removeElements(type, removed)
RemoveElements(els, type, removed) ==
    LET toRemove == Indices([i \in 1 .. Len(els) |->
                                els[i].type = type /\ els[i].element \in removed])
    IN SpliceEach(els, Reverse(toRemove))

\* The items of a collection that are to go (hits[ind] says which) go out
\* of it, last one first.
RemoveItems(seq, hits) == SpliceEach(seq, Reverse(Indices(hits)))

\* ------------------------------------------------------------ undo and redo
\* The collections of the project an action can change.
Project ==
    [instruments |-> instruments, patterns |-> patterns, samples |-> samples,
     automationClips |-> automationClips, elements |-> masterElements]

PatternIndex(pats, id) == CHOOSE i \in 1 .. Len(pats) : pats[i].id = id

\* The project with change c made (the item taken out at its index) or
\* taken back (the item put in again at its index).
Spliced(p, c, back) ==
    LET F(seq) == IF back THEN InsertAt(seq, c.index, c.item)
                  ELSE RemoveAt(seq, c.index)
    IN CASE c.coll = "instruments" -> [p EXCEPT !.instruments = F(@)]
         [] c.coll = "patterns" -> [p EXCEPT !.patterns = F(@)]
         [] c.coll = "samples" -> [p EXCEPT !.samples = F(@)]
         [] c.coll = "automationClips" -> [p EXCEPT !.automationClips = F(@)]
         [] c.coll = "elements" -> [p EXCEPT !.elements = F(@)]
         [] c.coll = "scores" ->
               [p EXCEPT !.patterns[PatternIndex(p.patterns, c.pattern)].scores = F(@)]

\* Undoing an action: its changes are taken back, the latest one first.
RECURSIVE UndoAll(_, _)
UndoAll(p, changes) ==
    IF changes = <<>> THEN p
    ELSE UndoAll(Spliced(p, changes[Len(changes)], TRUE),
                 SubSeq(changes, 1, Len(changes) - 1))

\* Redoing an action: its changes are made again, in their order.
RECURSIVE RedoAll(_, _)
RedoAll(p, changes) ==
    IF changes = <<>> THEN p
    ELSE RedoAll(Spliced(p, Head(changes), FALSE), Tail(changes))

\* The triggered removals recorded as an action of their own.
RecordedApart(stack, own, cascade, before, after) ==
    stack \o <<[changes |-> own, before |-> before, after |-> after],
               [changes |-> cascade, before |-> before, after |-> after]>>

\* The undo stack after a removal: the removal and the removals it triggered
\* are one action (with the project before and after it, for the statements).
Recorded(stack, own, cascade, before, after) ==
    Append(stack, [changes |-> own \o cascade, before |-> before, after |-> after])

\* The project collections become those of p.
ProjectBecomes(p) ==
    /\ instruments' = p.instruments
    /\ patterns' = p.patterns
    /\ samples' = p.samples
    /\ automationClips' = p.automationClips
    /\ masterElements' = p.elements

\* A removal with the removals it triggers, as one step.
Removal(coll, items, own, cascade, after) ==
    /\ ProjectBecomes(after)
    /\ undoStack' = Recorded(undoStack, ChangesOf(coll, "", own.log), cascade,
                             Project, after)
    /\ redoStack' = <<>>
    /\ call' = [op |-> "remove", coll |-> coll, items |-> items]
    /\ UNCHANGED <<notifications, transportVars, playlistVars, loadVars, componentVars>>

\* Instruments go out of project.instruments; onDidRemove takes their scores.
RemoveInstruments(S) ==
    /\ S # {}
    /\ S \subseteq Range(instruments)
    /\ Len(undoStack) < MaxHistory
    /\ LET own == RemoveItems(instruments, [i \in 1 .. Len(instruments) |-> instruments[i] \in S])
           cascade == InstrumentsOnDidRemove(patterns, S)
       IN Removal("instruments", S, own, cascade.log,
                  [Project EXCEPT !.instruments = own.rest,
                                  !.patterns = cascade.patterns])

\* Patterns go out of project.patterns; onDidRemove takes their elements.
RemovePatterns(S) ==
    /\ S # {}
    /\ S \subseteq Ids(patterns)
    /\ Len(undoStack) < MaxHistory
    /\ LET own == RemoveItems(patterns, [i \in 1 .. Len(patterns) |-> patterns[i].id \in S])
           cascade == RemoveElements(masterElements, "pattern", S)
       IN Removal("patterns", S, own, ChangesOf("elements", "", cascade.log),
                  [Project EXCEPT !.patterns = own.rest,
                                  !.elements = cascade.rest])

\* Samples go out of project.samples; onDidRemove takes their elements.
RemoveSamples(S) ==
    /\ S # {}
    /\ S \subseteq Range(samples)
    /\ Len(undoStack) < MaxHistory
    /\ LET own == RemoveItems(samples, [i \in 1 .. Len(samples) |-> samples[i] \in S])
           cascade == RemoveElements(masterElements, "sample", S)
       IN Removal("samples", S, own, ChangesOf("elements", "", cascade.log),
                  [Project EXCEPT !.samples = own.rest,
                                  !.elements = cascade.rest])

\* Clips go out of project.automationClips; onDidRemove takes their elements.
RemoveAutomationClips(S) ==
    /\ S # {}
    /\ S \subseteq Ids(automationClips)
    /\ Len(undoStack) < MaxHistory
    /\ LET own == RemoveItems(automationClips,
                               [i \in 1 .. Len(automationClips) |-> automationClips[i].id \in S])
           cascade == RemoveElements(masterElements, "automation", S)
       IN Removal("automationClips", S, own,
                  ChangesOf("elements", "", cascade.log),
                  [Project EXCEPT !.automationClips = own.rest,
                                  !.elements = cascade.rest])

Undo ==
    /\ undoStack # <<>>
    /\ LET entry == undoStack[Len(undoStack)]
       IN /\ ProjectBecomes(UndoAll(Project, entry.changes))
          /\ undoStack' = SubSeq(undoStack, 1, Len(undoStack) - 1)
          /\ redoStack' = Append(redoStack, entry)
          /\ call' = [op |-> "undo", entry |-> entry]
    /\ UNCHANGED <<notifications, transportVars, playlistVars, loadVars, componentVars>>

Redo ==
    /\ redoStack # <<>>
    /\ LET entry == redoStack[Len(redoStack)]
       IN /\ ProjectBecomes(RedoAll(Project, entry.changes))
          /\ redoStack' = SubSeq(redoStack, 1, Len(redoStack) - 1)
          /\ undoStack' = Append(undoStack, entry)
          /\ call' = [op |-> "redo", entry |-> entry]
    /\ UNCHANGED <<notifications, transportVars, playlistVars, loadVars, componentVars>>

\* A score of an instrument, as Score.create makes it.
ScoreOf(id, instrument) ==
    [id |-> id, instrumentId |-> instrument, instrument |-> instrument,
     notes |-> <<>>]

\* An automation clip without points.
ClipOf(id) ==
    [id |-> id, context |-> "channel", contextId |-> "c1", points |-> <<>>,
     control |-> <<>>]

\* The typed references a placed element can hold.
ElementRefs ==
    [type : {"pattern"}, element : PatternIds]
        \cup [type : {"sample"}, element : SampleIds]
        \cup [type : {"automation"}, element : ClipIds]

\* A project: two instruments, two patterns, a sample, a clip and the placed
\* elements, one after the other on row 0. Either the scores of the patterns
\* are any up to MaxScores each (two scores of a pattern may be of one
\* instrument) and at most one element is placed, or up to MaxMaster elements
\* are placed in any order and the first pattern has a score of each instrument.
InitProject ==
    /\ NoComponents
    /\ registry = [t \in Transports |-> <<>>]
    /\ filters = [t \in Transports |-> <<>>]
    /\ state = [t \in Transports |-> "stopped"]
    /\ position = [t \in Transports |-> LoopStart]
    /\ loop = [t \in Transports |-> FALSE]
    /\ nextId = 1
    /\ trackMute = [r \in Rows |-> FALSE]
    /\ fired = <<>>
    /\ cleared = {}
    /\ last = NoOp
    /\ elements = <<>>
    /\ notes = <<>>
    /\ projectJSON = NoProject
    /\ loadResult = NotLoaded
    /\ instruments = <<"i1", "i2">>
    /\ \E refs \in SeqsUpTo(ElementRefs, MaxMaster) :
          masterElements =
             [i \in 1 .. Len(refs) |->
                [type |-> refs[i].type, element |-> refs[i].element,
                 row |-> 0, time |-> i - 1, duration |-> 1]]
    /\ \E s1, s2 \in SeqsUpTo(InstrumentIds, MaxScores) :
          /\ Len(masterElements) <= 1 \/ (s1 = <<"i1", "i2">> /\ Len(s2) <= 1)
          /\ patterns =
             <<[id |-> "p1", scores |-> [k \in 1 .. Len(s1) |-> ScoreOf(<<"p1", k>>, s1[k])]],
               [id |-> "p2", scores |-> [k \in 1 .. Len(s2) |-> ScoreOf(<<"p2", k>>, s2[k])]]>>
    /\ samples = <<"s1">>
    /\ automationClips = <<ClipOf("a1")>>
    /\ undoStack = <<>>
    /\ redoStack = <<>>
    /\ notifications = <<>>
    /\ call = NoCall

NextProject ==
    \/ \E S \in SUBSET InstrumentIds : RemoveInstruments(S)
    \/ \E S \in SUBSET PatternIds : RemovePatterns(S)
    \/ \E S \in SUBSET SampleIds : RemoveSamples(S)
    \/ \E S \in SUBSET ClipIds : RemoveAutomationClips(S)
    \/ Undo
    \/ Redo

SpecProject == InitProject /\ [][NextProject]_vars

\* ------------------------------------------------------- automation clips
\* Elements placed in the playlist at first, and calls of createAutomationClip
\* in one run.
MaxPlaced == 2
MaxClips == 2

\* Where the placed elements are and how long (beats), and the interval of a
\* new clip.
PlaceTimes == 0 .. 3
PlaceDurations == {1, 2, 4}
ClipStarts == {1, 2}
ClipEnds == {3, 5, 6}
\* The values of the automated signal.
SignalValues == {3, 7}

\* row === null
NoRow == 0 - 1

\* TransportTimelineSignal.add(time, value): the control with the new event,
\* whose id (the one add returns) is one no event of the control has.
ControlNextId(control) == Len(control) + 1

ControlAdd(control, time, value) ==
    Append(control, [id |-> ControlNextId(control), time |-> time, value |-> value])

\* TransportTimelineSignal.change(eventId, value)
ControlChange(control, eventId, value) ==
    [k \in 1 .. Len(control) |->
        IF control[k].id = eventId THEN [control[k] EXCEPT !.value = value]
        ELSE control[k]]

\* AutomationClip.add that does not push the point.
ClipAddUnpushed(clip, time, value) ==
    [clip EXCEPT !.control = ControlAdd(@, ToTickTime(time), value)]

\* AutomationClip.add(time, value), with schedule(point)
ClipAdd(clip, time, value) ==
    LET eventId == ControlNextId(clip.control)
    IN [clip EXCEPT
           !.control = ControlAdd(@, ToTickTime(time), value),
           !.points = Append(@, [time |-> time, value |-> value,
                                 eventId |-> eventId])]

\* AutomationClip.create(length, signal, context, id)
AutomationClipCreate(id, length, signalValue, context, contextId) ==
    LET ac == [id |-> id, context |-> context, contextId |-> contextId,
               points |-> <<>>, control |-> <<>>]
    IN ClipAdd(ClipAdd(ac, 0, signalValue), length, signalValue)

\* The scan of createAutomationClip: available[row] of every row.
Available(els, start, end) ==
    [r \in Rows |->
        ~\E i \in 1 .. Len(els) :
            /\ els[i].row = r
            /\ \/ start > els[i].time /\ start < els[i].time + els[i].duration
               \/ end > els[i].time /\ end < els[i].time + els[i].duration]

\* The row selection of createAutomationClip: the first available row, or null.
FirstAvailable(available) ==
    IF \E r \in Rows : available[r]
    THEN CHOOSE r \in Rows : available[r] /\ \A q \in Rows : available[q] => r <= q
    ELSE NoRow

NoFreeTracks == "Unable to create automation clip"

\* createAutomationClip({ automatable, key, start, end }); the signal has the
\* given value. The placed element is scheduled on the master transport.
CreateAutomationClip(start, end, signalValue) ==
    LET row == FirstAvailable(Available(masterElements, start, end))
        id == "a" \o ToString(Len(automationClips) + 1)
        clip == AutomationClipCreate(id, end - start, signalValue, "channel", "c1")
    IN /\ start < end
       /\ Len(automationClips) + Len(notifications) < MaxClips
       /\ call' = [op |-> "createAutomationClip", start |-> start, end |-> end,
                   row |-> row]
       /\ IF row = NoRow
          THEN /\ notifications' = Append(notifications, NoFreeTracks)
               /\ UNCHANGED <<automationClips, masterElements, registry, nextId>>
          ELSE /\ automationClips' = Append(automationClips, clip)
               /\ masterElements' = Append(masterElements,
                      [type |-> "automation", element |-> id, row |-> row,
                       time |-> start, duration |-> end - start])
               /\ registry' = [registry EXCEPT !["master"] =
                      Append(@, NewEvent("master", nextId, ToTickTime(start), row,
                                         "callback", "none"))]
               /\ nextId' = nextId + 1
               /\ UNCHANGED notifications
       /\ UNCHANGED <<instruments, patterns, samples, undoStack, redoStack,
                      filters, state, position, loop, trackMute, fired, cleared,
                      last, playlistVars, loadVars, componentVars>>

\* A playlist of up to MaxPlaced samples placed anywhere on the tracks, in
\* which automation clips are created.
InitPlace ==
    /\ NoComponents
    /\ registry = [t \in Transports |-> <<>>]
    /\ filters = [t \in Transports |-> <<>>]
    /\ state = [t \in Transports |-> "stopped"]
    /\ position = [t \in Transports |-> LoopStart]
    /\ loop = [t \in Transports |-> FALSE]
    /\ nextId = 1
    /\ trackMute = [r \in Rows |-> FALSE]
    /\ fired = <<>>
    /\ cleared = {}
    /\ last = NoOp
    /\ elements = <<>>
    /\ notes = <<>>
    /\ projectJSON = NoProject
    /\ loadResult = NotLoaded
    /\ instruments = <<>>
    /\ patterns = <<>>
    /\ samples = <<"s1">>
    /\ automationClips = <<>>
    /\ masterElements \in
          SeqsUpTo([type : {"sample"}, element : {"s1"}, row : Rows,
                    time : PlaceTimes, duration : PlaceDurations], MaxPlaced)
    /\ undoStack = <<>>
    /\ redoStack = <<>>
    /\ notifications = <<>>
    /\ call = NoCall

NextPlace ==
    \E start \in ClipStarts, end \in ClipEnds, v \in SignalValues :
        CreateAutomationClip(start, end, v)

SpecPlace == InitPlace /\ [][NextPlace]_vars

\* -------------------------------------------------------------- Score.init
\* The keys every lookup object inherits from Object.prototype.
ObjectPrototypeKeys == {"constructor"}

\* The instrument ids a score of a project file can name.
ScoreInstrumentIds == InstrumentIds \cup ObjectPrototypeKeys

\* key in lookup, for a lookup with the given own keys.
InLookup(key, lookup) == key \in lookup \cup ObjectPrototypeKeys

\* lookup[key]: the instrument with that id, or what the key inherits.
LookupGet(key, lookup) ==
    IF key \in lookup THEN key
    ELSE IF key \in ObjectPrototypeKeys THEN "Object.prototype." \o key
    ELSE Unset

\* Score.init that assigns before it checks.
ScoreInitAssignFirst(i, k, lookup) ==
    LET score == patterns[i].scores[k]
    IN /\ patterns' = [patterns EXCEPT
              ![i].scores[k].instrument = LookupGet(score.instrumentId, lookup)]
       /\ call' = [op |-> "Score.init", pattern |-> i, score |-> k,
                   lookup |-> lookup,
                   threw |-> IF InLookup(score.instrumentId, lookup)
                             THEN "none" ELSE "Error"]
       /\ UNCHANGED <<instruments, samples, automationClips, masterElements,
                      undoStack, redoStack, notifications, transportVars,
                      playlistVars, loadVars, componentVars>>

\* score.init(lookup), for score k of pattern i; lookup is given by the ids of
\* the instruments it holds.
ScoreInit(i, k, lookup) ==
    LET score == patterns[i].scores[k]
    IN /\ IF ~InLookup(score.instrumentId, lookup)
          THEN /\ call' = [op |-> "Score.init", pattern |-> i, score |-> k,
                           lookup |-> lookup, threw |-> "Error"]
               /\ UNCHANGED patterns
          ELSE /\ call' = [op |-> "Score.init", pattern |-> i, score |-> k,
                           lookup |-> lookup, threw |-> "none"]
               /\ patterns' = [patterns EXCEPT
                      ![i].scores[k].instrument =
                          LookupGet(score.instrumentId, lookup)]
       /\ UNCHANGED <<instruments, samples, automationClips, masterElements,
                      undoStack, redoStack, notifications, transportVars,
                      playlistVars, loadVars, componentVars>>

\* A pattern with up to MaxScores scores, each read from a project file (its
\* instrument not set) or made by Score.create, and init called on them with
\* any lookup.
InitScore ==
    /\ NoComponents
    /\ registry = [t \in Transports |-> <<>>]
    /\ filters = [t \in Transports |-> <<>>]
    /\ state = [t \in Transports |-> "stopped"]
    /\ position = [t \in Transports |-> LoopStart]
    /\ loop = [t \in Transports |-> FALSE]
    /\ nextId = 1
    /\ trackMute = [r \in Rows |-> FALSE]
    /\ fired = <<>>
    /\ cleared = {}
    /\ last = NoOp
    /\ elements = <<>>
    /\ notes = <<>>
    /\ projectJSON = NoProject
    /\ loadResult = NotLoaded
    /\ instruments = <<"i1", "i2">>
    /\ \E ss \in SeqsUpTo([instrumentId : ScoreInstrumentIds, created : BOOLEAN],
                          MaxScores) :
          patterns =
             <<[id |-> "p1",
                scores |-> [k \in 1 .. Len(ss) |->
                   IF ss[k].created /\ ss[k].instrumentId \in InstrumentIds
                   THEN ScoreOf(<<"p1", k>>, ss[k].instrumentId)
                   ELSE [ScoreOf(<<"p1", k>>, ss[k].instrumentId)
                            EXCEPT !.instrument = Unset]]]>>
    /\ samples = <<>>
    /\ automationClips = <<>>
    /\ masterElements = <<>>
    /\ undoStack = <<>>
    /\ redoStack = <<>>
    /\ notifications = <<>>
    /\ call = NoCall

NextScore ==
    \E i \in 1 .. Len(patterns) : \E k \in 1 .. Len(patterns[i].scores) :
        \E lookup \in SUBSET InstrumentIds : ScoreInit(i, k, lookup)

SpecScore == InitScore /\ [][NextScore]_vars

\* ------------------------------------------------------- Pattern.duration
\* Notes of one score of the pattern.
MaxScoreNotes == 2
\* Where the notes of the scores start and how long they are, in beats.
NoteTimes == {0, 3}
NoteDurations == {1, 2}

\* Math.max(...values), of a sequence that is not empty.
RECURSIVE MathMax(_)
MathMax(values) ==
    IF Len(values) = 1 THEN values[1]
    ELSE LET rest == MathMax(Tail(values))
         IN IF values[1] >= rest THEN values[1] ELSE rest

\* this.scores.reduce((max, score) => Math.max(max, ...ends of its notes), max)
RECURSIVE ReduceScores(_, _)
ReduceScores(scores, max) ==
    IF scores = <<>> THEN max
    ELSE LET ns == Head(scores).notes
             ends == [n \in 1 .. Len(ns) |-> ns[n].time + ns[n].duration]
         IN ReduceScores(Tail(scores), MathMax(<<max>> \o ends))

\* The hardcoded least duration of a pattern, in beats.
MinPatternDuration == 4

\* Pattern.duration that looks at the last score only.
PatternDurationLastScore(pattern) ==
    IF pattern.scores = <<>> THEN MinPatternDuration
    ELSE ReduceScores(<<pattern.scores[Len(pattern.scores)]>>, MinPatternDuration)

\* get duration() of a pattern
PatternDuration(pattern) == ReduceScores(pattern.scores, MinPatternDuration)

\* History: the value the latest read of a duration gave (none read: 0).
LastRead == IF call.op = "none" THEN 0 ELSE call.value

\* The frame of the steps on the notes of a score.
ScoreStepFrame ==
    UNCHANGED <<instruments, samples, automationClips, masterElements, undoStack,
                redoStack, notifications, transportVars, playlistVars, loadVars, componentVars>>

\* score.notes.push(note)
AddScoreNote(i, k, time, duration) ==
    /\ Len(patterns[i].scores[k].notes) < MaxScoreNotes
    /\ patterns' = [patterns EXCEPT ![i].scores[k].notes =
                        Append(@, NewElement("note", 0, time, duration))]
    /\ call' = [op |-> "addNote", pattern |-> i, value |-> LastRead]
    /\ ScoreStepFrame

\* score.notes.splice(n, 1)
RemoveScoreNote(i, k, n) ==
    /\ patterns' = [patterns EXCEPT ![i].scores[k].notes = RemoveAt(@, n)]
    /\ call' = [op |-> "removeNote", pattern |-> i, value |-> LastRead]
    /\ ScoreStepFrame

\* note.duration = duration
ResizeScoreNote(i, k, n, duration) ==
    /\ patterns[i].scores[k].notes[n].duration # duration
    /\ patterns' = [patterns EXCEPT ![i].scores[k].notes[n].duration = duration]
    /\ call' = [op |-> "resizeNote", pattern |-> i, value |-> LastRead]
    /\ ScoreStepFrame

\* pattern.duration is read.
ReadPatternDuration(i) ==
    /\ call' = [op |-> "Pattern.duration", pattern |-> i,
                value |-> PatternDuration(patterns[i]), was |-> LastRead]
    /\ UNCHANGED patterns
    /\ ScoreStepFrame

\* A pattern with up to MaxScores scores without notes; notes are added to
\* the scores, removed and resized, and the duration is read at any time.
InitDuration ==
    /\ NoComponents
    /\ registry = [t \in Transports |-> <<>>]
    /\ filters = [t \in Transports |-> <<>>]
    /\ state = [t \in Transports |-> "stopped"]
    /\ position = [t \in Transports |-> LoopStart]
    /\ loop = [t \in Transports |-> FALSE]
    /\ nextId = 1
    /\ trackMute = [r \in Rows |-> FALSE]
    /\ fired = <<>>
    /\ cleared = {}
    /\ last = NoOp
    /\ elements = <<>>
    /\ notes = <<>>
    /\ projectJSON = NoProject
    /\ loadResult = NotLoaded
    /\ instruments = <<"i1", "i2">>
    /\ \E n \in 0 .. MaxScores :
          patterns = <<[id |-> "p1",
                        scores |-> [k \in 1 .. n |-> ScoreOf(<<"p1", k>>, "i1")]]>>
    /\ samples = <<>>
    /\ automationClips = <<>>
    /\ masterElements = <<>>
    /\ undoStack = <<>>
    /\ redoStack = <<>>
    /\ notifications = <<>>
    /\ call = NoCall

NextDuration ==
    \/ \E i \in 1 .. Len(patterns) : ReadPatternDuration(i)
    \/ \E i \in 1 .. Len(patterns) : \E k \in 1 .. Len(patterns[i].scores) :
          \E time \in NoteTimes, d \in NoteDurations : AddScoreNote(i, k, time, d)
    \/ \E i \in 1 .. Len(patterns) : \E k \in 1 .. Len(patterns[i].scores) :
          \E n \in 1 .. Len(patterns[i].scores[k].notes) : RemoveScoreNote(i, k, n)
    \/ \E i \in 1 .. Len(patterns) : \E k \in 1 .. Len(patterns[i].scores) :
          \E n \in 1 .. Len(patterns[i].scores[k].notes) :
              \E d \in NoteDurations : ResizeScoreNote(i, k, n, d)

SpecDuration == InitDuration /\ [][NextDuration]_vars

\* ------------------------------------------------- AutomationClip points
\* Points of one automation clip.
MaxPoints == 3
\* The lengths of the clips that are created and the times of added points.
ClipLengths == {2, 4}
PointTimes == {1, 2}

\* The frame of the steps on the points of a clip.
ClipStepFrame ==
    UNCHANGED <<instruments, patterns, samples, masterElements, undoStack,
                redoStack, notifications, transportVars, playlistVars, loadVars, componentVars>>

\* const ac = AutomationClip.create(length, signal, context, id), for a
\* signal of the given value; the clip is kept with the others.
ClipCreate(length, signalValue) ==
    /\ Len(automationClips) < MaxClips
    /\ automationClips' =
          Append(automationClips,
                 AutomationClipCreate("a" \o ToString(Len(automationClips) + 1),
                                      length, signalValue, "channel", "c1"))
    /\ call' = [op |-> "AutomationClip.create", clip |-> Len(automationClips) + 1,
                length |-> length, value |-> signalValue]
    /\ ClipStepFrame

\* clip.add(time, value), for the c-th clip
ClipAddPoint(c, time, value) ==
    /\ Len(automationClips[c].points) < MaxPoints
    /\ automationClips' = [automationClips EXCEPT ![c] = ClipAdd(@, time, value)]
    /\ call' = [op |-> "AutomationClip.add", clip |-> c, time |-> time,
                value |-> value]
    /\ ClipStepFrame

\* AutomationClip.change that does not tell the control signal.
ClipChangeUnforwarded(c, index, value) ==
    /\ automationClips' =
          IF index \in 1 .. Len(automationClips[c].points)
          THEN [automationClips EXCEPT ![c].points[index].value = value]
          ELSE automationClips
    /\ call' = [op |-> "AutomationClip.change", clip |-> c, index |-> index,
                value |-> value,
                threw |-> IF index \in 1 .. Len(automationClips[c].points)
                          THEN "none" ELSE "TypeError"]
    /\ ClipStepFrame

\* clip.change(index, value), for the c-th clip, with indices counted from 1:
\* this.points[index] of an index that is not there is undefined, and reading
\* its eventId throws.
ClipChange(c, index, value) ==
    /\ IF index \in 1 .. Len(automationClips[c].points)
       THEN LET point == automationClips[c].points[index]
            IN /\ automationClips' = [automationClips EXCEPT
                      ![c].control = ControlChange(@, point.eventId, value),
                      ![c].points[index].value = value]
               /\ call' = [op |-> "AutomationClip.change", clip |-> c,
                           index |-> index, value |-> value, threw |-> "none"]
       ELSE /\ UNCHANGED automationClips
            /\ call' = [op |-> "AutomationClip.change", clip |-> c,
                        index |-> index, value |-> value, threw |-> "TypeError"]
    /\ ClipStepFrame

\* Clips are created, points are added to them and changed.
InitClip ==
    /\ NoComponents
    /\ registry = [t \in Transports |-> <<>>]
    /\ filters = [t \in Transports |-> <<>>]
    /\ state = [t \in Transports |-> "stopped"]
    /\ position = [t \in Transports |-> LoopStart]
    /\ loop = [t \in Transports |-> FALSE]
    /\ nextId = 1
    /\ trackMute = [r \in Rows |-> FALSE]
    /\ fired = <<>>
    /\ cleared = {}
    /\ last = NoOp
    /\ elements = <<>>
    /\ notes = <<>>
    /\ projectJSON = NoProject
    /\ loadResult = NotLoaded
    /\ NoProjectData

NextClip ==
    \/ \E length \in ClipLengths, v \in SignalValues : ClipCreate(length, v)
    \/ \E c \in 1 .. Len(automationClips) :
          \E time \in PointTimes, v \in SignalValues : ClipAddPoint(c, time, v)
    \/ \E c \in 1 .. Len(automationClips) :
          \E index \in 1 .. MaxPoints + 1, v \in SignalValues : ClipChange(c, index, v)

SpecClip == InitClip /\ [][NextClip]_vars

\* ------------------------------------------- Playlist.init, Element.remove
\* Playlist.init(): every element of the playlist is scheduled on the
\* playlist's transport, in the order of the list, and keeps the id returned.
PlaylistInit ==
    /\ elements # <<>>
    /\ nextId + Len(elements) - 1 <= MaxId
    /\ registry' = [registry EXCEPT !["master"] = @ \o
          [k \in 1 .. Len(elements) |->
              IF elements[k].type = "pattern"
              THEN NewEvent("master", nextId + k - 1, TickTimeOf(elements[k]),
                            elements[k].row, "embed", "p1")
              ELSE NewEvent("master", nextId + k - 1, TickTimeOf(elements[k]),
                            elements[k].row, "callback", "none")]]
    /\ elements' = [k \in 1 .. Len(elements) |->
                       [elements[k] EXCEPT !.eventId = nextId + k - 1]]
    /\ nextId' = nextId + Len(elements)
    /\ fired' = <<>>
    /\ last' = [NoOp EXCEPT !.op = "Playlist.init"]
    /\ UNCHANGED <<filters, state, position, loop, trackMute, cleared, notes,
                   loadVars, componentVars, projectVars>>

\* The playlist: elements are placed, scheduled one by one or all at once
\* with Playlist.init, and removed from the transport.
NextElement ==
    \/ \E type \in {"pattern", "sample"}, row \in Rows, time \in Beats, d \in Durations :
           PlaceElement(type, row, time, d)
    \/ \E i \in 1 .. MaxElements : PlacedPatternSchedule(i)
    \/ \E i \in 1 .. MaxElements : PlacedSampleSchedule(i)
    \/ \E i \in 1 .. MaxElements : ElementRemove(i)
    \/ PlaylistInit

SpecElement == Init /\ [][NextElement]_vars

\* ------------------------------------------- unmuting during playback
\* The tick at which the callback f fired is due: the time of its event
\* shifted by the times of the embeds it was reached through.
RECURSIVE PathTime(_, _)
PathTime(t, path) ==
    IF path = <<>> THEN 0
    ELSE LET e == CHOOSE x \in Range(registry[t]) : x.id = Head(path)
         IN e.time + PathTime(e.child, Tail(path))

DueTimeOf(f) ==
    PathTime("master", f.path)
       + (CHOOSE x \in Range(registry[f.owner]) : x.id = f.id).time

\* The event of the playlist's transport the callback f came from: the
\* event itself, or the embed it was reached through.
TopEventOf(f) ==
    CHOOSE x \in Range(registry["master"]) :
        x.id = (IF f.path = <<>> THEN f.id ELSE Head(f.path))

\* The events of the playlist's transport that are due at tick p and that
\* its filters reject, each with the tick.
Rejected(p) ==
    {[id |-> e.id, at |-> p] :
        e \in {x \in Range(registry["master"]) :
                 /\ ~Accepts("master", x)
                 /\ IF x.kind = "callback" THEN x.time = p
                    ELSE p >= x.time /\ Due(x.child, p - x.time, <<x.id>>) # <<>>}}

\* The project after defineAPI, played while tracks are muted and unmuted;
\* what the mute filter rejects is written down from the start of playback on.
NextUnmute ==
    \/ /\ \E row \in Rows, time \in Times : Schedule("master", time, row)
       /\ UNCHANGED <<playlistVars, loadVars, componentVars, projectVars>>
    \/ /\ \E row \in Rows, time \in Times : Embed("master", "p1", time, row)
       /\ UNCHANGED <<playlistVars, loadVars, componentVars, projectVars>>
    \/ /\ \E r \in Rows : ToggleMute(r)
       /\ UNCHANGED <<playlistVars, loadVars, componentVars, projectVars>>
    \/ /\ Start("master")
       /\ suppressed' = {}
       /\ UNCHANGED <<playlistVars, loadVars, channelVars, managerVars, midiVars,
                      synth, projectVars>>
    \/ /\ Tick("master")
       /\ suppressed' = suppressed \cup Rejected(position["master"])
       /\ UNCHANGED <<playlistVars, loadVars, channelVars, managerVars, midiVars,
                      synth, projectVars>>

SpecUnmute == InitMute /\ [][NextUnmute]_vars

\* ------------------------------------------- runs about one component
\* The transports, the playlist and the loader of a run that is not about
\* them: nothing scheduled, nothing placed, nothing loaded.
NothingScheduled ==
    /\ registry = [t \in Transports |-> <<>>]
    /\ filters = [t \in Transports |-> <<>>]
    /\ state = [t \in Transports |-> "stopped"]
    /\ position = [t \in Transports |-> LoopStart]
    /\ loop = [t \in Transports |-> FALSE]
    /\ nextId = 1
    /\ trackMute = [r \in Rows |-> FALSE]
    /\ fired = <<>>
    /\ cleared = {}
    /\ last = NoOp
    /\ elements = <<>>
    /\ notes = <<>>
    /\ projectJSON = NoProject
    /\ loadResult = NotLoaded

\* ------------------------------------------- Channel: addEffect, deleteEffect
\* The loop of addEffect from index toInsert on: "occupied" when an effect
\* sits in slot i, else the index the loop stops at.
RECURSIVE ToInsert(_, _, _)
ToInsert(effects, i, toInsert) ==
    IF toInsert >= Len(effects) THEN [occupied |-> FALSE, at |-> toInsert]
    ELSE LET effect == effects[toInsert + 1]
         IN IF effect.slot = i THEN [occupied |-> TRUE, at |-> toInsert]
            ELSE IF effect.slot > i THEN [occupied |-> FALSE, at |-> toInsert]
            ELSE ToInsert(effects, i, toInsert + 1)

\* The effects after addEffect that puts the new effect at the end.
AddEffectAtEnd(effects, name, i, id) ==
    IF ToInsert(effects, i, 0).occupied THEN effects
    ELSE Append(effects, EffectCreate(i, name, id))

\* The effects after channel.addEffect(name, i), for the id the new effect
\* would get.
AddEffectTo(effects, name, i, id) ==
    LET found == ToInsert(effects, i, 0)
    IN IF found.occupied THEN effects
       ELSE InsertAt(effects, found.at + 1, EffectCreate(i, name, id))

\* The effects after channel.deleteEffect(i): splice(i, 1) takes out the
\* effect at index i, or nothing when i is past the end.
DeleteEffectFrom(effects, i) ==
    IF i < Len(effects) THEN RemoveAt(effects, i + 1) ELSE effects

ChannelFrame ==
    UNCHANGED <<transportVars, playlistVars, loadVars, projectData, suppressed,
                managerVars, midiVars, synth>>

\* channel.addEffect(name, i)
AddEffect(name, i) ==
    /\ nextUuid <= MaxUuid
    /\ channel' = [channel EXCEPT !.effects = AddEffectTo(@, name, i, nextUuid)]
    /\ nextUuid' = IF ToInsert(channel.effects, i, 0).occupied THEN nextUuid
                   ELSE nextUuid + 1
    /\ call' = [op |-> "addEffect", name |-> name, slot |-> i,
                occupied |-> ToInsert(channel.effects, i, 0).occupied]
    /\ ChannelFrame

\* channel.deleteEffect(i). The effect that is removed is disposed of by the
\* onDidRemove handler and is not kept anywhere.
DeleteEffect(i) ==
    /\ channel' = [channel EXCEPT !.effects = DeleteEffectFrom(@, i)]
    /\ call' = [op |-> "deleteEffect", index |-> i, len |-> Len(channel.effects)]
    /\ UNCHANGED nextUuid
    /\ ChannelFrame

\* channel.pan.value = value
SetPan(value) ==
    /\ channel' = [channel EXCEPT !.pan = value]
    /\ call' = [op |-> "pan", value |-> value]
    /\ UNCHANGED nextUuid
    /\ ChannelFrame

\* channel.volume.value = value
SetVolume(value) ==
    /\ channel' = [channel EXCEPT !.volume = value]
    /\ call' = [op |-> "volume", value |-> value]
    /\ UNCHANGED nextUuid
    /\ ChannelFrame

\* channel.mute.value = value: the onDidChange handler connects the output
\* to the master node, or to nothing when the channel is muted.
SetMute(value) ==
    /\ channel' = [channel EXCEPT !.mute = value,
                                  !.output = IF value THEN NoNode ELSE "master"]
    /\ call' = [op |-> "mute", value |-> value]
    /\ UNCHANGED nextUuid
    /\ ChannelFrame

\* The project is saved and opened again: the channel is made anew from
\* what it serialized to.
ReloadChannel ==
    /\ channel' = NewChannel(ChannelSerialize(channel))
    /\ call' = [op |-> "reload", was |-> channel]
    /\ UNCHANGED nextUuid
    /\ ChannelFrame

\* The slots of a payload's effects, in the order the code keeps them in.
RECURSIVE IsStrictlyIncreasing(_)
IsStrictlyIncreasing(slots) ==
    Len(slots) <= 1 \/ (slots[1] < slots[2] /\ IsStrictlyIncreasing(Tail(slots)))

\* The channel payloads of a project file: effects sorted by slot as addEffect
\* leaves them, pan and volume possibly absent (an older file).
ChannelPayloads ==
    {[number |-> 0, name |-> "Channel 0", id |-> 1,
      effects |-> [k \in 1 .. Len(ss) |->
                      [slot |-> ss[k], type |-> "wah",
                       options |-> EffectDefaultsOf("wah"), id |-> k + 1]],
      pan |-> pan, volume |-> volume, mute |-> mute] :
        ss \in {s \in SeqsUpTo(Slots, MaxPayloadEffects) : IsStrictlyIncreasing(s)},
        pan \in {Undefined, 1}, volume \in {Undefined, 70}, mute \in BOOLEAN}

\* A channel of a new project (Channel.create) or of a project file
\* (new Channel(iChannel)).
InitChannel ==
    /\ NothingScheduled
    /\ NoProjectData
    /\ \/ \E num \in ChannelNumbers :
             /\ channel = ChannelCreate(num, 1)
             /\ nextUuid = 2
       \/ \E i \in ChannelPayloads :
             /\ channel = NewChannel(i)
             /\ nextUuid = Len(i.effects) + 2
    /\ suppressed = {}
    /\ NoManager
    /\ extensionDefs = PlainExtensions
    /\ NoRecorder
    /\ selectedScore = FALSE
    /\ selectedPattern = FALSE
    /\ NoInstrument

NextChannel ==
    \/ \E name \in EffectNames : \E i \in Slots : AddEffect(name, i)
    \/ \E i \in DeleteIndices : DeleteEffect(i)
    \/ \E value \in Pans : SetPan(value)
    \/ \E value \in Volumes : SetVolume(value)
    \/ \E value \in BOOLEAN : SetMute(value)
    \/ ReloadChannel

SpecChannel == InitChannel /\ [][NextChannel]_vars

\* ------------------------------------------- extension manager: get, activate
\* Nested calls the runtime's call stack takes (activations in progress)
\* before it throws a RangeError.
MaxCallDepth == 4
\* Activations and queued notifications after which no further call is made.
MaxManagerWork == 4

\* The extensions another extension asks for with manager.get in its
\* activate, in the order it asks.
DepSeqs == {s \in SeqsUpTo(ExtIds, 2) : \A m, n \in 1 .. Len(s) : m # n => s[m] # s[n]}

\* The manager's module state while a call runs, and what the call threw.
ManagerState ==
    [extensions |-> extensions, resolved |-> resolved, stack |-> extensionsStack,
     activations |-> activations, queue |-> notificationQueue,
     projectManager |-> projectManager, threw |-> "none"]

\* manager.get and manager.activate; depth counts the activations in
\* progress. extension.activate(context) asks for its dependencies with
\* manager.get, one after the other, and lets what they throw pass.
RECURSIVE ManagerGet(_, _, _)
RECURSIVE ManagerGetAll(_, _, _)
RECURSIVE ManagerActivate(_, _, _)

ManagerGetAll(m, deps, depth) ==
    IF deps = <<>> THEN m
    ELSE LET m1 == ManagerGet(m, Head(deps), depth)
         IN IF m1.threw # "none" THEN m1 ELSE ManagerGetAll(m1, Tail(deps), depth)

ManagerActivate(m, id, depth) ==
    IF depth > MaxCallDepth THEN [m EXCEPT !.threw = "RangeError"]
    ELSE LET m1 == [m EXCEPT !.projectManager = TRUE, !.resolved[id] = "false"]
         IN IF extensionDefs[id].workspace /\ extensionDefs[id].stored = "invalid"
            THEN [m1 EXCEPT !.queue = Append(@, id), !.threw = "Error"]
            ELSE LET m2 == ManagerGetAll([m1 EXCEPT !.activations[id] = @ + 1],
                                         extensionDefs[id].deps, depth + 1)
                 IN IF m2.threw # "none" THEN m2
                    ELSE [m2 EXCEPT !.extensions = @ \cup {id},
                                    !.resolved[id] = "true",
                                    !.stack = Append(@, id)]

ManagerGet(m, id, depth) ==
    IF id \in m.extensions
    THEN IF m.resolved[id] # "true"
         THEN [m EXCEPT !.threw = "Circular dependency detected"]
         ELSE m
    ELSE ManagerActivate([m EXCEPT !.resolved[id] = "false"], id, depth)

\* Activations so far and notifications queued.
RECURSIVE SumOver(_, _)
SumOver(f, S) ==
    IF S = {} THEN 0 ELSE LET x == CHOOSE y \in S : TRUE IN f[x] + SumOver(f, S \ {x})

ManagerWork == SumOver(activations, ExtIds) + Len(notificationQueue)

ManagerFrame ==
    UNCHANGED <<transportVars, playlistVars, loadVars, projectData, channelVars,
                suppressed, extensionDefs, midiVars, synth>>

\* manager.get(extension), called from outside any activation.
GetCall(id) ==
    /\ ManagerWork < MaxManagerWork
    /\ LET m == ManagerGet(ManagerState, id, 1)
       IN /\ extensions' = m.extensions
          /\ resolved' = m.resolved
          /\ extensionsStack' = m.stack
          /\ activations' = m.activations
          /\ notificationQueue' = m.queue
          /\ projectManager' = m.projectManager
          /\ call' = [op |-> "get", id |-> id, threw |-> m.threw,
                      stored |-> id \in extensions]
    /\ UNCHANGED <<extState, files>>
    /\ ManagerFrame

\* ------------------------------------------- extension manager: dispose
\* getDataFromExtensions(key) from the given entries of the reversed stack
\* on: the state of each extension is encoded and put under its id; an
\* encoding that throws is skipped; an extension without a definition for
\* the key ends the function, which then returns nothing.
RECURSIVE GetDataFromExtensions(_, _, _)
GetDataFromExtensions(stack, key, data) ==
    IF stack = <<>> THEN data
    ELSE LET id == Head(stack)
         IN IF ~extensionDefs[id][key] THEN NoData
            ELSE IF extensionDefs[id].encode = "throws"
                 THEN GetDataFromExtensions(Tail(stack), key, data)
                 ELSE GetDataFromExtensions(Tail(stack), key,
                         [data EXCEPT !.entries =
                             {e \in @ : e.id # id} \cup
                                {[id |-> id, state |-> extState[id][key]]}])

\* The extension changes a value of its workspace or global state.
SetExtensionState(id, key, v) ==
    /\ id \in extensions
    /\ extensionDefs[id][key]
    /\ Cardinality({x \in ExtIds \X {"workspace", "global"} :
                       extState[x[1]][x[2]] # 0}) < MaxChanged
    /\ extState' = [extState EXCEPT ![id][key] = v]
    /\ call' = [op |-> "state", id |-> id]
    /\ UNCHANGED <<extensions, resolved, extensionsStack, activations,
                   notificationQueue, projectManager, files>>
    /\ ManagerFrame

\* manager.dispose(): the extensions are deactivated, the latest activated
\* first (what deactivate throws is caught), then the global and workspace
\* data are collected and written. Writing data that is undefined either
\* writes no state or throws, depending on the runtime; when the first write
\* throws the workspace file is not written.
Dispose(writeThrows) ==
    /\ LET g == GetDataFromExtensions(Reverse(extensionsStack), "global", EmptyData)
           w == GetDataFromExtensions(Reverse(extensionsStack), "workspace", EmptyData)
       IN IF ~projectManager
          THEN /\ UNCHANGED files
               /\ ~writeThrows
               /\ call' = [op |-> "dispose", deactivated |-> <<>>, threw |-> "none"]
          ELSE /\ writeThrows => g = NoData
               /\ files' = [global |-> g,
                            workspace |-> IF writeThrows THEN files.workspace ELSE w]
               /\ call' = [op |-> "dispose",
                           deactivated |->
                              SelectSeq(Reverse(extensionsStack),
                                        LAMBDA id : extensionDefs[id].deactivate # "none"),
                           threw |-> IF writeThrows THEN "TypeError" ELSE "none"]
    /\ UNCHANGED <<extensions, resolved, extensionsStack, activations,
                   notificationQueue, projectManager, extState>>
    /\ ManagerFrame

\* The extensions of a run about manager.get: every way three extensions
\* can ask for each other, one of them possibly with a stored workspace
\* state that does not decode.
GetDefs ==
    {[id \in ExtIds |->
         [deps |-> d[id], workspace |-> TRUE, global |-> TRUE, deactivate |-> "ok",
          encode |-> "ok",
          stored |-> IF id = "c" /\ bad THEN "invalid" ELSE "valid"]] :
        d \in [ExtIds -> DepSeqs], bad \in BOOLEAN}

\* The extensions of a run about manager.dispose: b is asked for by a, c
\* stands alone; which definitions they declare, whether a has a deactivate
\* that throws and whether the encoding of b throws, varies.
DisposeDefs ==
    {[id \in ExtIds |->
         [deps |-> IF id = "a" THEN <<"b">> ELSE <<>>,
          workspace |-> id \in ws, global |-> id \in gs,
          deactivate |-> IF id = "a" THEN de[id] ELSE "ok",
          encode |-> IF id = en THEN "throws" ELSE "ok",
          stored |-> "valid"]] :
        ws \in {ExtIds \ x : x \in {{}, {"a"}, {"b"}, {"c"}}},
        gs \in {ExtIds, {"a", "b"}},
        de \in [{"a"} -> {"none", "ok", "throws"}], en \in {"none", "b"}}

InitManager ==
    /\ NothingScheduled
    /\ NoProjectData
    /\ NoChannels
    /\ suppressed = {}
    /\ NoManager
    /\ extensionDefs \in GetDefs
    /\ NoRecorder
    /\ selectedScore = FALSE
    /\ selectedPattern = FALSE
    /\ NoInstrument

NextManager == \E id \in ExtIds : GetCall(id)

SpecManager == InitManager /\ [][NextManager]_vars

InitDispose ==
    /\ NothingScheduled
    /\ NoProjectData
    /\ NoChannels
    /\ suppressed = {}
    /\ NoManager
    /\ extensionDefs \in DisposeDefs
    /\ NoRecorder
    /\ selectedScore = FALSE
    /\ selectedPattern = FALSE
    /\ NoInstrument

NextDispose ==
    \/ \E id \in ExtIds : GetCall(id)
    \/ \E id \in ExtIds, key \in {"workspace", "global"}, v \in StateValues :
          SetExtensionState(id, key, v)
    \/ \E writeThrows \in BOOLEAN : Dispose(writeThrows)

SpecDispose == InitDispose /\ [][NextDispose]_vars

\* ------------------------------------------- MIDI recording
\* Note-on and note-off events the input device sends in one run.
MaxMidiEvents == 4

\* transport.progress * (loopEnd - loopStart) / 60 * bpm: where the play-head
\* of the transport the recorder holds is, in beats. The transport the
\* recorder makes for itself is never started.
TransportLocation ==
    IF midiTransport = "p1" THEN position["p1"] \div TicksPerBeat ELSE 0

MidiFrame ==
    UNCHANGED <<filters, loop, trackMute, fired, cleared, last, playlistVars,
                loadVars, instruments, patterns, samples, automationClips,
                masterElements, undoStack, redoStack, channelVars, suppressed,
                managerVars, synth, selectedScore, selectedPattern>>

\* onDidNoteOn(e), for a key that is pressed.
NoteOn(k) ==
    /\ midiClock < MaxMidiEvents
    /\ k \notin heldKeys
    /\ heldKeys' = heldKeys \cup {k}
    /\ midiClock' = midiClock + 1
    /\ IF recording
       THEN /\ recordedNotes' = [recordedNotes EXCEPT ![k] = midiClock]
            /\ notesStartTimes' = [notesStartTimes EXCEPT ![k] = TransportLocation]
       ELSE UNCHANGED <<recordedNotes, notesStartTimes>>
    /\ call' = [op |-> "noteon", key |-> k, recording |-> recording,
                threw |-> "none"]
    /\ UNCHANGED <<recording, midiTransport, midiNotes, registry, nextId, state,
                   position, notifications>>
    /\ MidiFrame

\* onDidNoteOff(e), for a key that is released. While recording, the
\* recorded note-on and start time of the key are read and deleted; reading
\* the timestamp of a note-on that is not there throws a TypeError. With a
\* selected score the note is made and pushed, and scheduled when a pattern
\* is selected.
NoteOff(k) ==
    /\ midiClock < MaxMidiEvents
    /\ k \in heldKeys
    /\ (recording /\ selectedScore /\ selectedPattern) => nextId <= MaxId
    /\ heldKeys' = heldKeys \ {k}
    /\ midiClock' = midiClock + 1
    /\ IF ~recording
       THEN UNCHANGED <<recordedNotes, notesStartTimes, midiNotes, registry, nextId>>
       ELSE /\ recordedNotes' = [recordedNotes EXCEPT ![k] = Missing]
            /\ notesStartTimes' = [notesStartTimes EXCEPT ![k] = Missing]
            /\ IF recordedNotes[k] # Missing /\ selectedScore
               THEN /\ midiNotes' = Append(midiNotes,
                          [row |-> KeyRow(k), duration |-> midiClock - recordedNotes[k],
                           time |-> notesStartTimes[k],
                           eventId |-> IF selectedPattern THEN nextId ELSE NoEvent])
                    /\ IF selectedPattern
                       THEN /\ registry' = [registry EXCEPT ![midiTransport] = Append(@,
                                  NewEvent(midiTransport, nextId,
                                           ToTickTime(notesStartTimes[k]), KeyRow(k),
                                           "callback", "none"))]
                            /\ nextId' = nextId + 1
                       ELSE UNCHANGED <<registry, nextId>>
               ELSE UNCHANGED <<midiNotes, registry, nextId>>
    /\ call' = [op |-> "noteoff", key |-> k, recording |-> recording,
                threw |-> IF recording /\ recordedNotes[k] = Missing
                          THEN "TypeError" ELSE "none"]
    /\ UNCHANGED <<recording, midiTransport, state, position, notifications>>
    /\ MidiFrame

\* The record button while not recording: startRecording().
StartRecording ==
    /\ ~recording
    /\ Len(notifications) < MaxClips
    /\ IF ~selectedScore
       THEN /\ notifications' = Append(notifications, "No Score Found")
            /\ UNCHANGED <<recording, midiTransport, state>>
       ELSE /\ recording' = TRUE
            /\ IF selectedPattern
               THEN /\ midiTransport' = "p1"
                    /\ state' = [state EXCEPT !["p1"] = "playing"]
               ELSE UNCHANGED <<midiTransport, state>>
            /\ UNCHANGED notifications
    /\ call' = [op |-> "startRecording", threw |-> "none"]
    /\ UNCHANGED <<recordedNotes, notesStartTimes, midiNotes, heldKeys, midiClock,
                   registry, nextId, position>>
    /\ MidiFrame

\* The record button while recording: stopRecording().
StopRecording ==
    /\ recording
    /\ recording' = FALSE
    /\ state' = [state EXCEPT !["p1"] = "stopped"]
    /\ position' = [position EXCEPT !["p1"] = LoopStart]
    /\ call' = [op |-> "stopRecording", threw |-> "none"]
    /\ UNCHANGED <<recordedNotes, notesStartTimes, midiNotes, heldKeys, midiClock,
                   midiTransport, registry, nextId, notifications>>
    /\ MidiFrame

\* The recorder after the extension is activated, with or without a
\* selected score and a selected pattern.
InitMidi ==
    /\ NothingScheduled
    /\ NoProjectData
    /\ NoChannels
    /\ suppressed = {}
    /\ NoManager
    /\ extensionDefs = PlainExtensions
    /\ NoRecorder
    /\ NoInstrument
    /\ selectedScore \in BOOLEAN
    /\ selectedPattern \in BOOLEAN

NextMidi ==
    \/ \E k \in Keys : NoteOn(k)
    \/ \E k \in Keys : NoteOff(k)
    \/ StartRecording
    \/ StopRecording
    \/ /\ Tick("p1")
       /\ UNCHANGED <<playlistVars, loadVars, componentVars, projectVars>>

SpecMidi == InitMidi /\ [][NextMidi]_vars

\* ------------------------------------------- Instrument: mute, connect
InstrumentFrame ==
    UNCHANGED <<transportVars, playlistVars, loadVars, projectData, channelVars,
                suppressed, managerVars, midiVars>>

\* instrument.mute = mute
SetInstrumentMute(mute) ==
    /\ synth' = CheckConnection([synth EXCEPT !.mute = mute])
    /\ call' = [op |-> "mute", value |-> mute]
    /\ InstrumentFrame

\* instrument.channel = channel
SetInstrumentChannel(c) ==
    /\ synth' = [synth EXCEPT !.channel = c]
    /\ call' = [op |-> "channel", value |-> c]
    /\ InstrumentFrame

\* instrument.connect(node): the panner is connected to the node, which
\* becomes the destination; then checkConnection().
InstrumentConnect(node) ==
    /\ synth' = CheckConnection([synth EXCEPT
                                         !.outputs = @ \cup {node},
                                         !.destination = node])
    /\ call' = [op |-> "connect", node |-> node]
    /\ InstrumentFrame

\* instrument.disconnect(): the panner is disconnected from the destination,
\* when there is one, and no destination is left.
InstrumentDisconnect ==
    /\ synth' = IF synth.destination # NoNode
                     THEN [synth EXCEPT !.outputs = @ \ {synth.destination},
                                             !.destination = NoNode]
                     ELSE synth
    /\ call' = [op |-> "disconnect"]
    /\ InstrumentFrame

InitInstrument ==
    /\ NothingScheduled
    /\ NoProjectData
    /\ NoChannels
    /\ suppressed = {}
    /\ NoManager
    /\ extensionDefs = PlainExtensions
    /\ NoRecorder
    /\ selectedScore = FALSE
    /\ selectedPattern = FALSE
    /\ \E mute \in BOOLEAN : synth = InstrumentCreate(mute)

NextInstrument ==
    \/ \E mute \in BOOLEAN : SetInstrumentMute(mute)
    \/ \E c \in InstrumentChannels : SetInstrumentChannel(c)
    \/ \E node \in Nodes : InstrumentConnect(node)
    \/ InstrumentDisconnect

SpecInstrument == InitInstrument /\ [][NextInstrument]_vars

\* =================================================================== claims
\* Helpers of the statements below.
FiredIds == {fired[i].id : i \in 1 .. Len(fired)}

ClearedIds == {c.id : c \in cleared}

AllEvents == UNION {Range(registry[t]) : t \in Transports}

EventOf(id) == CHOOSE e \in AllEvents : e.id = id

HolderOf(id) == CHOOSE t \in Transports : id \in Ids(registry[t])

RECURSIVE SumTimes(_)
SumTimes(ids) ==
    IF ids = <<>> THEN 0 ELSE EventOf(Head(ids)).time + SumTimes(Tail(ids))

C2_ClearedNeverFires ==
    \A i \in 1 .. Len(fired) :
        /\ fired[i].id \notin ClearedIds
        /\ Range(fired[i].path) \cap ClearedIds = {}

\* A tick of the transport at the very time of an event cleared from it, while
\* another callback of the transport fires.
C2_Witness ==
    /\ last.op = "tick"
    /\ fired # <<>>
    /\ \E c \in cleared : c.owner = last.t /\ c.time = last.at

\* C3: clear is idempotent: after clear(id) the id is not in the registry, a
\* clear of an id that is not in the registry (already cleared, or cleared
\* while stopped) changes nothing, and every other entry stays in its place.
C3_ClearIdempotent ==
    [][last'.op = "clear" =>
          LET t == last'.t
              id == last'.id
          IN /\ id \notin Ids(registry'[t])
             /\ id \notin Ids(registry[t]) => registry' = registry
             /\ registry'[t] = SelectSeq(registry[t], LAMBDA e : e.id # id)
             /\ \A u \in Transports \ {t} : registry'[u] = registry[u]
             /\ <<state', position', filters', nextId'>>
                    = <<state, position, filters, nextId>>]_vars

\* An id that was cleared before is cleared again, on a stopped transport that
\* still holds other events.
C3_Witness ==
    /\ last.op = "clear"
    /\ ~last.present
    /\ last.id \in ClearedIds
    /\ state[last.t] = "stopped"
    /\ registry[last.t] # <<>>

\* C4: events of one transport that are due at the same tick fire in the
\* order in which they were scheduled (ids are handed out in that order).
C4_InsertionOrder ==
    \A i, j \in 1 .. Len(fired) :
        (i < j /\ fired[i].owner = fired[j].owner /\ fired[i].path = fired[j].path)
            => fired[i].id < fired[j].id

\* The first and the third event scheduled fire at one tick; the second one
\* was scheduled in between (for another time, or cleared since).
C4_Witness ==
    \E i, j \in 1 .. Len(fired) :
        /\ i < j
        /\ fired[i].owner = fired[j].owner
        /\ fired[i].path = fired[j].path
        /\ fired[j].id - fired[i].id >= 2

\* C5: a due event fires if and only if every predicate of the chain accepts
\* it when the tick happens, whatever the chain answered when the event was
\* scheduled.
C5_FiltersAtFireTime ==
    last.op = "tick" =>
        \A e \in Range(registry[last.t]) :
            (e.kind = "callback" /\ e.time = last.at) =>
                (e.id \in FiredIds <=>
                    \A i \in 1 .. Len(filters[last.t]) :
                        FilterHolds(filters[last.t][i], e))

\* Two events are due under a chain of two predicates: one fires although the
\* chain rejected it when it was scheduled, one is suppressed although the
\* chain accepted it then.
C5_Witness ==
    /\ last.op = "tick"
    /\ Len(filters[last.t]) >= 2
    /\ \E e \in Range(registry[last.t]) :
          e.time = last.at /\ e.id \in FiredIds /\ ~e.okWhenScheduled
    /\ \E e \in Range(registry[last.t]) :
          e.time = last.at /\ e.id \notin FiredIds /\ e.okWhenScheduled

\* The ids of a sequence of firings or of events, in order.
IdsOfSeq(seq) == [i \in 1 .. Len(seq) |-> seq[i].id]

\* The firings of the latest tick that came through the embed of the given id.
FiredVia(embedId) == SelectSeq(fired, LAMBDA f : f.path = <<embedId>>)

\* The callbacks of the pattern's transport whose time is tick q, in the
\* order of its registry: what the pattern played alone fires at q.
AloneAt(q) ==
    IdsOfSeq(SelectSeq(registry["p1"],
                       LAMBDA e : e.kind = "callback" /\ e.time = q))

\* C6: with the mute filter on the master transport, an event of the master
\* playlist (a sample's callback, or a note reached through a placed pattern)
\* fires at a tick iff it is due at that tick and the track of its row is not
\* muted at that moment: muting a track suppresses exactly its row, unmuting
\* resumes it, and the other rows are not affected.
C6_MuteExactlyRow ==
    (last.op = "tick" /\ last.t = "master") =>
        \A e \in Range(registry["master"]) :
            IF e.kind = "callback"
            THEN (\E i \in 1 .. Len(fired) :
                        fired[i].id = e.id /\ fired[i].path = <<>>)
                    <=> (e.time = last.at /\ ~trackMute[e.row])
            ELSE \A n \in Range(registry[e.child]) :
                    (\E i \in 1 .. Len(fired) :
                        fired[i].id = n.id /\ fired[i].path = <<e.id>>)
                    <=> (e.time + n.time = last.at /\ ~trackMute[e.row])

\* At one tick a sample on a muted track is due and suppressed while the note
\* of a pattern placed on the other, unmuted track fires.
C6_Witness ==
    /\ last.op = "tick"
    /\ last.t = "master"
    /\ \E e \in Range(registry["master"]) :
          /\ e.kind = "callback"
          /\ e.time = last.at
          /\ trackMute[e.row]
          /\ e.id \notin FiredIds
    /\ \E e \in Range(registry["master"]) :
          /\ e.kind = "embed"
          /\ ~trackMute[e.row]
          /\ FiredVia(e.id) # <<>>

\* C7: a pattern placed at offset O (PlacedPattern.schedule embeds the
\* pattern's transport at the element's tick time) makes the playlist fire, at
\* tick p, the callbacks the pattern played alone fires at tick p - O, in the
\* same order.
C7_EmbedShiftsPattern ==
    last.op = "tick" =>
        /\ last.t = "p1" => IdsOfSeq(fired) = AloneAt(last.at)
        /\ last.t = "master" =>
              \A i \in 1 .. Len(elements) :
                  elements[i].eventId \in Ids(registry["master"]) =>
                      IdsOfSeq(FiredVia(elements[i].eventId))
                          = AloneAt(last.at - ToTickTime(elements[i].time))

\* The playlist fires two notes of the pattern at one tick through a pattern
\* element placed after the start of the playlist.
C7_Witness ==
    /\ last.op = "tick"
    /\ last.t = "master"
    /\ \E i \in 1 .. Len(elements) :
          /\ elements[i].time > 0
          /\ Len(FiredVia(elements[i].eventId)) >= 2

Dangling(iProject) ==
    \/ \E i \in 1 .. Len(iProject.patterns) :
          \E k \in 1 .. Len(iProject.patterns[i].scores) :
              iProject.patterns[i].scores[k].instrumentId
                  \notin Range(iProject.instruments)
    \/ \E i \in 1 .. Len(iProject.elements) :
          LET el == iProject.elements[i]
              list == CASE el.type = "automation" -> iProject.automationClips
                        [] el.type = "pattern" -> iProject.patterns
                        [] el.type = "sample" -> iProject.samples
          IN \A k \in 1 .. Len(list) : list[k].id # el.id

\* An automation clip of the project file whose context id or attribute does
\* not resolve to a signal.
UnresolvedClip(iProject) ==
    \E i \in 1 .. Len(iProject.automationClips) :
        LET clip == iProject.automationClips[i]
            list == IF clip.context = "channel" THEN iProject.channels
                    ELSE iProject.instruments
        IN clip.contextId \notin Range(list) \/ clip.attr \notin SignalAttrs

\* C9: a project file with a dangling reference is loaded as a result of type
\* "error" that carries a message and the empty default project.
C9_DanglingIsError ==
    (loadResult.type # "none" /\ projectJSON.kind = "project"
        /\ Dangling(projectJSON.decoded))
        => /\ loadResult.type = "error"
           /\ loadResult.message # <<>>
           /\ loadResult.project = EmptyProject

\* C9 holds of every project file whose automation clips all resolve: the
\* only loads with a dangling reference that do not end in the error result
\* are the ones that throw on an automation clip first.
C9_UnlessClipThrows ==
    (loadResult.type # "none" /\ projectJSON.kind = "project"
        /\ Dangling(projectJSON.decoded))
        => \/ /\ loadResult.type = "error"
              /\ loadResult.message # <<>>
              /\ loadResult.project = EmptyProject
           \/ /\ loadResult.type = "thrown"
              /\ UnresolvedClip(projectJSON.decoded)

\* C10: every structural error of a project file, an automation clip that
\* does not resolve to a signal included, comes back from loadProject as a
\* result of type "error"; nothing is thrown.
C10_NoThrowPastLoad ==
    /\ loadResult.type \in {"none", "success", "error"}
    /\ (loadResult.type # "none" /\ projectJSON.kind = "project"
          /\ UnresolvedClip(projectJSON.decoded))
          => loadResult.type = "error"

\* The changes of the latest action on the undo stack that are on collection c.
TopChanges(c) ==
    IF undoStack = <<>> THEN <<>>
    ELSE SelectSeq(undoStack[Len(undoStack)].changes, LAMBDA ch : ch.coll = c)

KindOf(coll) ==
    CASE coll = "patterns" -> "pattern"
      [] coll = "samples" -> "sample"
      [] coll = "automationClips" -> "automation"
      [] OTHER -> "none"

\* C12: removing patterns, samples or automation clips takes out of the
\* master playlist exactly the elements of that kind that refer to a removed
\* entity; all other elements stay, in the order they were in.
C12_ElementCascade ==
    [][(call'.op = "remove" /\ call'.coll # "instruments") =>
          masterElements' =
              SelectSeq(masterElements,
                        LAMBDA el : ~(el.type = KindOf(call'.coll)
                                        /\ el.element \in call'.items))]_vars

\* A pattern was removed that the first and the third element referred to;
\* the element between them, of another entity, is the one that is left.
C12_Witness ==
    /\ call.op = "remove"
    /\ call.coll = "patterns"
    /\ \E k \in 1 .. Len(TopChanges("elements")) : TopChanges("elements")[k].index = 1
    /\ \E k \in 1 .. Len(TopChanges("elements")) : TopChanges("elements")[k].index = 3
    /\ Len(masterElements) = 1

\* C13: a removal and the removals it triggers are one action: the removal
\* puts one action on the undo stack, one undo gives back the project as it
\* was before the removal (the entity and every score or element that went
\* with it, each in its place), and one redo gives the project as it was
\* after the removal.
C13_CascadeIsOneAction ==
    [][/\ call'.op = "remove" =>
            /\ Len(undoStack') = Len(undoStack) + 1
            /\ undoStack'[Len(undoStack')].before = Project
            /\ undoStack'[Len(undoStack')].after = Project'
       /\ call'.op = "undo" =>
            /\ Project' = call'.entry.before
            /\ Len(undoStack') = Len(undoStack) - 1
       /\ call'.op = "redo" =>
            /\ Project' = call'.entry.after
            /\ Len(redoStack') = Len(redoStack) - 1]_vars

\* The removal of an instrument that took scores with it was undone and then
\* done again, after an earlier removal that took placed elements with it.
C13_Witness ==
    /\ call.op = "redo"
    /\ \E k \in 1 .. Len(call.entry.changes) : call.entry.changes[k].coll = "instruments"
    /\ \E k \in 1 .. Len(call.entry.changes) : call.entry.changes[k].coll = "scores"
    /\ Len(undoStack) = 2
    /\ \E k \in 1 .. Len(undoStack[1].changes) : undoStack[1].changes[k].coll = "elements"

\* Element el's interval [time, time + duration) meets [start, end).
Overlaps(el, start, end) ==
    start < el.time + el.duration /\ el.time < end

\* The rows on which no element of els meets [start, end).
FreeRows(els, start, end) ==
    {r \in Rows : \A i \in 1 .. Len(els) : els[i].row = r => ~Overlaps(els[i], start, end)}

\* The elements that were placed before the latest createAutomationClip put
\* its own element at the end.
PlacedBefore == SubSeq(masterElements, 1, Len(masterElements) - 1)

\* The latest call was a createAutomationClip that placed a clip.
ClipPlaced == call.op = "createAutomationClip" /\ call.row # NoRow

\* C14: createAutomationClip places the clip on a row on which no element
\* that was there overlaps the clip's interval.
C14_PlacedWithoutOverlap ==
    ClipPlaced =>
        \A i \in 1 .. Len(PlacedBefore) :
            PlacedBefore[i].row = call.row
                => ~Overlaps(PlacedBefore[i], call.start, call.end)

\* C15: when a row is free for the interval, createAutomationClip places the
\* clip, and on the lowest free row.
C15_LowestFreeRow ==
    /\ ClipPlaced =>
          /\ call.row \in FreeRows(PlacedBefore, call.start, call.end)
          /\ \A r \in FreeRows(PlacedBefore, call.start, call.end) : call.row <= r
    /\ (call.op = "createAutomationClip" /\ call.row = NoRow) =>
          FreeRows(masterElements, call.start, call.end) = {}

\* The row createAutomationClip takes is the lowest of the rows its own scan
\* left available: C15 fails only where that scan misses an overlap.
C15_LowestAvailableRow ==
    /\ ClipPlaced =>
          /\ Available(PlacedBefore, call.start, call.end)[call.row]
          /\ \A r \in Rows :
                Available(PlacedBefore, call.start, call.end)[r] => call.row <= r
    /\ (call.op = "createAutomationClip" /\ call.row = NoRow) =>
          \A r \in Rows : ~Available(masterElements, call.start, call.end)[r]

\* C16: a createAutomationClip for an interval for which no row is free adds
\* a warning and changes neither the clips, nor the placed elements, nor the
\* schedule of the master transport.
C16_NoFreeRowNoMutation ==
    [][(call'.op = "createAutomationClip"
          /\ FreeRows(masterElements, call'.start, call'.end) = {}) =>
            /\ notifications' = Append(notifications, NoFreeTracks)
            /\ UNCHANGED <<automationClips, masterElements, registry, nextId>>]_vars

\* When the scan of createAutomationClip leaves no row available the call
\* warns and changes nothing, and it warns in no other case: C16 fails only
\* where that scan misses an overlap.
C16_NoAvailableRowNoMutation ==
    [][call'.op = "createAutomationClip" =>
          IF \A r \in Rows : ~Available(masterElements, call'.start, call'.end)[r]
          THEN /\ notifications' = Append(notifications, NoFreeTracks)
               /\ UNCHANGED <<automationClips, masterElements, registry, nextId>>
          ELSE /\ notifications' = notifications
               /\ Len(automationClips') = Len(automationClips) + 1]_vars

\* The score the latest Score.init was called on.
InitScoreOf(c) == patterns[c.pattern].scores[c.score]

\* C17: Score.init(lookup) fails with ReferenceError when the score's
\* instrumentId is not a key of the lookup and leaves the score's instrument
\* unset; when the id is a key it sets instrument to lookup[instrumentId].
C17_ScoreInitReferenceError ==
    call.op = "Score.init" =>
        IF InitScoreOf(call).instrumentId \notin call.lookup
        THEN call.threw = "ReferenceError" /\ InitScoreOf(call).instrument = Unset
        ELSE call.threw = "none"
                /\ InitScoreOf(call).instrument = InitScoreOf(call).instrumentId

\* C17 as amended: Score.init(lookup) throws a plain Error when the score's
\* instrumentId is not in the lookup (neither an own key nor an inherited
\* one) and leaves the score's instrument as it was; when the id is in the
\* lookup it sets instrument to lookup[instrumentId] and throws nothing. No
\* other score changes.
C17_ScoreInitError ==
    [][call'.op = "Score.init" =>
          LET i == call'.pattern
              k == call'.score
              score == patterns[i].scores[k]
          IN IF ~InLookup(score.instrumentId, call'.lookup)
             THEN call'.threw = "Error" /\ patterns' = patterns
             ELSE /\ call'.threw = "none"
                  /\ patterns' = [patterns EXCEPT ![i].scores[k].instrument =
                                    LookupGet(score.instrumentId, call'.lookup)]]_vars

\* init threw on a score whose instrument had been set, for a lookup that
\* holds another instrument, and the instrument is still set.
C17_Witness ==
    /\ call.op = "Score.init"
    /\ call.threw = "Error"
    /\ call.lookup # {}
    /\ InitScoreOf(call).instrument \in InstrumentIds

\* The ends (time + duration) of all notes of all scores of a pattern.
NoteEnds(pattern) ==
    UNION {{ns[n].time + ns[n].duration : n \in 1 .. Len(ns)} :
              ns \in {pattern.scores[k].notes : k \in 1 .. Len(pattern.scores)}}

\* C18: whenever Pattern.duration is read, after any additions, removals and
\* resizes of notes, its value is the greatest of 4 and the ends of the
\* notes the scores hold at that moment.
C18_PatternDuration ==
    call.op = "Pattern.duration" =>
        LET ends == NoteEnds(patterns[call.pattern]) \cup {4}
        IN /\ call.value \in ends
           /\ \A e \in ends : e <= call.value

\* The duration is read as 4, after it was read as 5 and the note that ended
\* at 5 was removed or made shorter, while the two scores still hold notes.
C18_Witness ==
    /\ call.op = "Pattern.duration"
    /\ call.value = 4
    /\ call.was = 5
    /\ Len(patterns[call.pattern].scores) = 2
    /\ \A k \in 1 .. 2 : patterns[call.pattern].scores[k].notes # <<>>

\* Point pt of a clip holds the id of an event of the clip's control signal,
\* and that event is at the point's time (in ticks) with the point's value.
PointIsScheduled(clip, pt) ==
    \E k \in 1 .. Len(clip.control) :
        /\ clip.control[k].id = pt.eventId
        /\ clip.control[k].time = ToTickTime(pt.time)
        /\ clip.control[k].value = pt.value
        /\ \A j \in 1 .. Len(clip.control) :
              clip.control[j].id = pt.eventId => j = k

\* C19: AutomationClip.create(length, signal) gives a clip with exactly the
\* two points (0, v) and (length, v), v the value of the signal, each with
\* the event id the control signal's add returned for it; and no add or
\* change afterwards takes a point away: the two points stay the first two,
\* at their times and with their event ids.
C19_CreateHasTwoPoints ==
    [][/\ call'.op = "AutomationClip.create" =>
            LET clip == automationClips'[call'.clip]
            IN /\ Len(clip.points) = 2
               /\ clip.points[1].time = 0
               /\ clip.points[2].time = call'.length
               /\ \A n \in 1 .. 2 :
                     /\ clip.points[n].value = call'.value
                     /\ PointIsScheduled(clip, clip.points[n])
               /\ clip.points[1].eventId # clip.points[2].eventId
       /\ \A c \in 1 .. Len(automationClips) :
            /\ Len(automationClips'[c].points) >= Len(automationClips[c].points)
            /\ Len(automationClips'[c].points) >= 2
            /\ \A n \in 1 .. 2 :
                  /\ automationClips'[c].points[n].time = automationClips[c].points[n].time
                  /\ automationClips'[c].points[n].eventId
                        = automationClips[c].points[n].eventId]_vars

\* A second clip was created, after a point was added to the first clip and
\* one of its two first points was given another value.
C19_Witness ==
    /\ call.op = "AutomationClip.create"
    /\ call.clip = 2
    /\ Len(automationClips[1].points) = 3
    /\ automationClips[1].points[1].value # automationClips[1].points[2].value

\* C20: change(index, value) on a point that is there gives the point the
\* value and hands the value to the control signal under the point's event
\* id; the point keeps its time and event id, the clip its number of points,
\* and every other point, control event and clip stays as it was.
C20_ChangeOnlyValue ==
    [][(call'.op = "AutomationClip.change" /\ call'.threw = "none") =>
          LET c == call'.clip
              index == call'.index
              old == automationClips[c]
              new == automationClips'[c]
          IN /\ \A d \in 1 .. Len(automationClips) : d # c =>
                    automationClips'[d] = automationClips[d]
             /\ Len(new.points) = Len(old.points)
             /\ new.points[index] = [old.points[index] EXCEPT !.value = call'.value]
             /\ \A n \in 1 .. Len(old.points) : n # index =>
                    new.points[n] = old.points[n]
             /\ Len(new.control) = Len(old.control)
             /\ \A k \in 1 .. Len(old.control) :
                    new.control[k] =
                       IF old.control[k].id = old.points[index].eventId
                       THEN [old.control[k] EXCEPT !.value = call'.value]
                       ELSE old.control[k]
             /\ PointIsScheduled(new, new.points[index])]_vars

\* The point that was added last to a clip of three points was given a value
\* that is not the one it had, nor the one of the other points.
C20_Witness ==
    /\ call.op = "AutomationClip.change"
    /\ call.threw = "none"
    /\ call.index = 3
    /\ LET clip == automationClips[call.clip]
       IN /\ Len(clip.points) = 3
          /\ clip.points[3].value = call.value
          /\ clip.points[1].value # call.value
          /\ clip.points[2].value # call.value
          /\ \E k \in 1 .. Len(clip.control) :
                clip.control[k].id = clip.points[3].eventId
                    /\ clip.control[k].value = call.value

SlotsOf(effects) == [k \in 1 .. Len(effects) |-> effects[k].slot]

\* C26: the effects list of a channel stays strictly increasing by slot;
\* addEffect on an occupied slot changes nothing and on a free slot adds one
\* effect of that slot and type, and deleteEffect removes exactly the effect
\* at the given index.
C26_EffectsSortedBySlot ==
    /\ [](IsStrictlyIncreasing(SlotsOf(channel.effects)))
    /\ [][/\ (call'.op = "addEffect" /\ \E e \in Range(channel.effects) : e.slot = call'.slot)
                => channel' = channel
          /\ (call'.op = "addEffect" /\ \A e \in Range(channel.effects) : e.slot # call'.slot)
                => /\ Len(channel'.effects) = Len(channel.effects) + 1
                   /\ Range(channel.effects) \subseteq Range(channel'.effects)
                   /\ \E e \in Range(channel'.effects) \ Range(channel.effects) :
                         e.slot = call'.slot /\ e.type = call'.name
          /\ (call'.op = "deleteEffect" /\ call'.index < Len(channel.effects))
                => channel'.effects =
                      [k \in 1 .. Len(channel.effects) - 1 |->
                          IF k <= call'.index THEN channel.effects[k]
                          ELSE channel.effects[k + 1]]
          /\ (call'.op = "deleteEffect" /\ call'.index >= Len(channel.effects))
                => channel' = channel]_vars

\* An effect was added in the slot between the slots of two effects of the
\* channel and sits between them.
C26_Witness ==
    /\ call.op = "addEffect"
    /\ ~call.occupied
    /\ Len(channel.effects) = 3
    /\ channel.effects[2].slot = call.slot
    /\ channel.effects[2].id > channel.effects[3].id

\* C22: each element owns at most one live scheduled event: every event the
\* playlist's transport holds is the one whose id an element of the playlist
\* keeps as its eventId, and no two elements keep the same one (no event is
\* left behind without an owner by Playlist.init or schedule).
C22_OneLiveEventPerElement ==
    /\ \A e \in Range(registry["master"]) :
          \E i \in 1 .. Len(elements) : elements[i].eventId = e.id
    /\ \A i, j \in 1 .. Len(elements) :
          (i # j /\ elements[i].eventId # NoEvent) =>
              elements[i].eventId # elements[j].eventId

\* C23: Element.remove(transport) takes the element's event out of the
\* transport and clears the element's eventId; on an element that was never
\* scheduled it changes nothing.
C23_RemoveClearsEventId ==
    [][\A i \in 1 .. Len(elements) :
          ElementRemove(i) =>
             /\ elements'[i].eventId = NoEvent
             /\ elements[i].eventId \notin Ids(registry'["master"])
             /\ elements[i].eventId = NoEvent =>
                   (registry' = registry /\ elements' = elements)]_vars

\* What the code does hold to: remove takes the element's event out of the
\* transport and nothing else, and a second remove changes nothing more.
C23_RemoveCancelsEvent ==
    [][\A i \in 1 .. Len(elements) :
          ElementRemove(i) =>
             /\ registry'["master"] = ClearReg(registry["master"], elements[i].eventId)
             /\ elements[i].eventId \notin Ids(registry'["master"])
             /\ elements' = elements
             /\ (elements[i].eventId = NoEvent
                    \/ elements[i].eventId \notin Ids(registry["master"]))
                   => registry' = registry]_vars

\* C24: the points of an automation clip are ordered by time after create
\* and after every add(time, value), also when the time given lies before
\* the time of the last point.
C24_PointsOrderedByTime ==
    \A c \in 1 .. Len(automationClips) :
        \A m, n \in 1 .. Len(automationClips[c].points) :
            m < n => automationClips[c].points[m].time
                        <= automationClips[c].points[n].time

\* C25: unmuting a track during playback fires nothing retroactively: a
\* mute or unmute fires nothing and leaves the registry alone, and every
\* callback a tick fires is due at that tick on a track that is not muted,
\* so it is none of the events that were rejected when they were due.
C25_NoRetroactiveFiring ==
    [][/\ last'.op = "mute" => (fired' = <<>> /\ registry' = registry)
       /\ last'.op = "tick" =>
             \A k \in 1 .. Len(fired') :
                 /\ DueTimeOf(fired'[k]) = last'.at
                 /\ ~trackMute[TopEventOf(fired'[k]).row]
                 /\ [id |-> TopEventOf(fired'[k]).id, at |-> DueTimeOf(fired'[k])]
                        \notin suppressed']_vars

\* A track was unmuted during playback after an event on it was rejected;
\* the next tick fired a later event of that track and not the rejected one.
C25_Witness ==
    /\ last.op = "tick"
    /\ state["master"] = "playing"
    /\ \E s \in suppressed :
          \E e \in Range(registry["master"]) :
             /\ e.id = s.id
             /\ e.kind = "callback"
             /\ s.at < last.at
             /\ ~trackMute[e.row]
             /\ \A k \in 1 .. Len(fired) : fired[k].id # e.id
             /\ \E k \in 1 .. Len(fired) : TopEventOf(fired[k]).row = e.row

\* C27: manager.get on an extension whose own activation is in progress
\* throws 'Circular dependency detected' and does not call its activate
\* again: whatever get calls are made, no extension's activate is called more
\* than once, a get never ends in the call stack running out, and a get on an
\* extension whose API is stored returns it without throwing.
C27_CircularDependencyDetected ==
    /\ \A id \in ExtIds : activations[id] <= 1
    /\ call.op = "get" => call.threw # "RangeError"
    /\ (call.op = "get" /\ call.stored) => call.threw = "none"

\* C28: manager.dispose deactivates the extensions in reverse activation
\* order and then writes, for every activated extension that declares a
\* workspace (resp. global) definition and whose encoding does not throw, its
\* current state under its id, whatever the other extensions declare or throw.
C28_DisposePersistsStates ==
    (call.op = "dispose" /\ projectManager) =>
        /\ call.deactivated =
              SelectSeq(Reverse(extensionsStack),
                        LAMBDA id : extensionDefs[id].deactivate # "none")
        /\ \A key \in {"workspace", "global"} :
              \A id \in Range(extensionsStack) :
                  (extensionDefs[id][key] /\ extensionDefs[id].encode = "ok") =>
                      [id |-> id, state |-> extState[id][key]] \in files[key].entries

\* C29: every note-off handled while recording is on finds the recorded
\* note-on and start time of its key, so that making the note never reads a
\* note-on that is missing, and after it the key is in neither recordedNotes
\* nor notesStartTimes.
C29_NoteOffFindsNoteOn ==
    (call.op = "noteoff" /\ call.recording) =>
        /\ call.threw = "none"
        /\ recordedNotes[call.key] = Missing
        /\ notesStartTimes[call.key] = Missing

\* C30: the instrument's panner is connected to its current destination if
\* and only if the instrument is not muted and a destination is set, and the
\* connected flag says whether the panner is connected to the destination.
C30_ConnectedIffUnmuted ==
    /\ (synth.destination \in synth.outputs)
          <=> (~synth.mute /\ synth.destination # NoNode)
    /\ synth.connected <=> (synth.destination \in synth.outputs)

====
